---- MODULE Spec2Model ----
(***************************************************************************)
(* A model of the RaA benchmark: generation (src/src/loop_controller.py),   *)
(* evaluation (src/src/evaluation_engine.py), the reports                  *)
(* (src/src/reporting.py, src/src/graph_creator.py,                        *)
(* src/src/reporting_summary.py) and the entry point (src/src/main.py).    *)
(*                                                                         *)
(* Spec       EvaluationEngine.run over an experiment: for every item of   *)
(*            metadata.json the comparisons of _eval_single_item are rated *)
(*            one after the other and the four rating files are written.   *)
(* SpecRater  one call of EvaluationEngine._run_rater, one loop iteration  *)
(*            (attempt) per step.                                          *)
(* SpecMeta   EvaluationEngine.run over whatever a generation run left:    *)
(*            no metadata.json, an unreadable one, records of a run that   *)
(*            was interrupted, long runs; the rater answers at once.       *)
(* SpecTable  one ratings file through load_and_normalize_data and         *)
(*            calculate_aggregates, and through GraphCreator._iter_series. *)
(* SpecReport EvaluationEngine.run, then reporting.main over the tree the  *)
(*            run left, with or without ratings.json files in it.          *)
(* SpecRetry  one call of LoopController._retry_with_backoff, one attempt  *)
(*            per step.                                                    *)
(* SpecLoop   runs of LoopController over one output directory, each with  *)
(*            a new controller, the generators working or failing.         *)
(* SpecCharts EvaluationEngine.run, then GraphCreator over the eval        *)
(*            directories, one of whose files may have been spoiled.       *)
(* SpecSummaries  the same, with SummaryGenerator in place of GraphCreator.*)
(* SpecMain   main.main in its three modes over an empty or a completed    *)
(*            output directory: LoopController, the engine, the reports.   *)
(***************************************************************************)
EXTENDS Integers, Naturals, Sequences, FiniteSets, TLC

(* ------------------------------ bounds -------------------------------- *)

\* Items in metadata.json.
MaxItems == 2

\* Iterations recorded for one item.
MaxIter == 2

\* The iterations of the long experiment of SpecMeta: two-digit iteration numbers.
LongRun == 10

\* Records in one ratings file of SpecTable.
MaxRecords == 2

\* Rater calls of one run that do not succeed on their first attempt with a
\* _RatingModel (a file is missing, the call raises, the response is odd).
MaxFaulty == 1

(* ------------------------- program constants -------------------------- *)

\* _run_rater(..., max_retries: int = 3)
DefaultMaxRetries == 3

\* DEFAULT_RATING: every criterion has this score.
SentinelScore == -1

\* top_drops = valid_df.nsmallest(10, "delta")
TopDrops == 10

\* The score the stand-in _RatingModel response carries.
ModelScore == 5

Criteria ==
    { "content_correspondence", "compositional_alignment", "fidelity_completeness",
      "stylistic_congruence", "overall_semantic_intent" }

DEFAULT_RATING == [c \in Criteria |-> [score |-> SentinelScore, reason |-> "Rating failed"]]

\* What model_dump() of a parsed _RatingModel gives.
ModelDump == [c \in Criteria |-> [score |-> ModelScore, reason |-> "ok"]]

\* A parsed payload that is a plain dict (tests/test_evaluation_engine_retries.py).
DictPayload == ("some" :> "data")

Kinds == { "image-image", "text-text", "image-text", "text-image" }

Anchors == { "original", "previous", "same-step" }

\* config.loop.type.upper(); "" when there is no config.
LoopTypes == { "I-T-I", "T-I-T", "" }

(* ------------------------------ files --------------------------------- *)

\* A file name: stem, iteration number and extension ("image_iter2.jpg").
FileName(stem, n, ext) == [stem |-> stem, n |-> n, ext |-> ext]

InputJpg == FileName("input", 0, "jpg")
InputTxt == FileName("input", 0, "txt")
ImageIter(i) == FileName("image_iter", i, "jpg")
TextIter(i) == FileName("text_iter", i, "txt")

\* rec.get(key, "") when the key is absent.
EmptyName == FileName("", 0, "")

\* _path(rel): exp_root / item_id / rel
ItemPath(item_id, rel) == [item |-> item_id, rel |-> rel]

\* Path(p).name: the last component; of _path("") it is the item directory.
PathName(p) == IF p.rel = EmptyName THEN FileName("", p.item, "") ELSE p.rel

\* a.lower().endswith((".jpg", ".jpeg", ".png"))
IsImageName(p) == p.rel.ext \in { "jpg", "jpeg", "png" }

\* What a path is on disk when the rater looks at it.
FileStatus == { "ok", "missing", "broken" }

(* ----------------------------- metadata ------------------------------- *)

\* The keys of one record of metadata.json: "input", "iter{N}_img", "iter{N}_text".
\* The keys are strings: the iteration number is written in decimal, str(i) of
\* f"iter{i}_img", and read back with int(...).
RECURSIVE Decimal(_)
Decimal(n) == IF n < 10 THEN << n >> ELSE Decimal(n \div 10) \o << n % 10 >>

RECURSIVE ParseInt(_)
ParseInt(digits) ==
    IF digits = << >> THEN 0
    ELSE 10 * ParseInt(SubSeq(digits, 1, Len(digits) - 1)) + digits[Len(digits)]

InputKey == <<"input", << >> >>
ImgKey(i) == <<"img", Decimal(i)>>
TextKey(i) == <<"text", Decimal(i)>>

\* The record LoopController leaves for an item with n complete iterations.
CompleteRecord(input, n) ==
    [k \in {InputKey} \cup { ImgKey(i) : i \in 1..n } \cup { TextKey(i) : i \in 1..n } |->
        IF k = InputKey THEN input
        ELSE IF k[1] = "img" THEN ImageIter(ParseInt(k[2])) ELSE TextIter(ParseInt(k[2]))]

\* rec.get(key, "")
RecGet(rec, key) == IF key \in DOMAIN rec THEN rec[key] ELSE EmptyName

(* ------------------------------ rater --------------------------------- *)

\* Image.open(p) succeeds: the entry is there, readable, and holds an image.
OpensAsImage(p, fs) == fs[p] = "ok" /\ IsImageName(p)

\* _prepare_contents for the two cross-modal kinds, once the image and the text
\* argument are told apart: "contents", or the exception raised.
PrepareImageAndText(img_path, txt_path, fs) ==
    IF fs[img_path] = "missing" THEN "FileNotFoundError"
    ELSE IF fs[txt_path] = "broken" THEN "OSError"
    ELSE IF ~OpensAsImage(img_path, fs) THEN "FileNotFoundError"
    ELSE "contents"

\* _prepare_contents(kind, a, b): "contents", or the exception raised.  A text
\* that is missing is replaced by "No text available"; one that cannot be read
\* raises.
prepare_contents(kind, a, b, fs) ==
    CASE kind = "image-image" ->
            IF \E p \in {a, b} : fs[p] = "missing" THEN "FileNotFoundError"
            ELSE IF ~OpensAsImage(a, fs) THEN "FileNotFoundError"
            ELSE IF ~OpensAsImage(b, fs) THEN "FileNotFoundError"
            ELSE "contents"
      [] kind = "text-text" ->
            IF fs[a] = "broken" \/ fs[b] = "broken" THEN "OSError" ELSE "contents"
      [] kind = "image-text" ->
            IF IsImageName(a) THEN PrepareImageAndText(a, b, fs)
            ELSE PrepareImageAndText(b, a, fs)
      [] kind = "text-image" ->
            IF IsImageName(a) THEN PrepareImageAndText(a, b, fs)
            ELSE IF IsImageName(b) THEN PrepareImageAndText(b, a, fs)
            ELSE "FileNotFoundError"
      [] OTHER -> "ValueError"

\* What one call of client.models.generate_content can do:
\*   raise     the call raises
\*   noparse   the response has no (or a falsy) parsed attribute
\*   other     parsed is neither a model nor a dict
\*   model     parsed is a _RatingModel
\*   dict      parsed is a plain dict
Outcomes == { "raise", "noparse", "other", "model", "dict" }

\* The local state of one _run_rater call: the loop variable, the model calls
\* made, the time.sleep arguments so far, and how it ended (returned a rating,
\* or let an exception out).  log is the history of the call: per attempt, the
\* exception _prepare_contents raised or what the model call did.
RaterStart ==
    [attempt |-> 0, calls |-> 0, sleeps |-> <<>>, returned |-> FALSE,
     rating |-> DEFAULT_RATING, raised |-> "", log |-> <<>>]

Logged(st, what) == [st EXCEPT !.log = Append(@, what)]

\* The log entries of attempts that gave a rating back.
Successes == { "model", "dict" }

\* The attempts of a call and how many of them failed.
CallSummary(st) ==
    [attempts |-> Len(st.log),
     failures |-> Cardinality({ j \in 1..Len(st.log) : st.log[j] \notin Successes })]

\* attempt_failed without its guard: a sleep after the last attempt too.
attempt_failed_AlwaysSleeps(st, max_retries) ==
    [st EXCEPT !.sleeps = Append(@, 2 ^ st.attempt), !.attempt = @ + 1]

\* "Only sleep if we're going to retry": the end of a failed attempt.
attempt_failed(st, max_retries) ==
    IF st.attempt < max_retries - 1
    THEN [st EXCEPT !.sleeps = Append(@, 2 ^ st.attempt), !.attempt = @ + 1]
    ELSE [st EXCEPT !.attempt = @ + 1]

\* attempt_raised letting FileNotFoundError through to the caller.
attempt_raised_Reraises(st, exc, max_retries) ==
    IF exc = "FileNotFoundError" THEN [st EXCEPT !.raised = exc]
    ELSE attempt_failed(st, max_retries)

\* except Exception: every exception of the attempt is caught here.
attempt_raised(st, exc, max_retries) == attempt_failed(st, max_retries)

\* rater_attempt going on to the next attempt after a parsed rating.
rater_attempt_KeepsTrying(st, kind, a, b, fs, out, max_retries) ==
    LET prep == prepare_contents(kind, a, b, fs)
        called == [Logged(st, out) EXCEPT !.calls = @ + 1]
    IN  IF prep # "contents" THEN attempt_raised(Logged(st, prep), prep, max_retries)
        ELSE CASE out = "raise" -> attempt_raised(called, "Exception", max_retries)
               [] out = "model" -> attempt_failed([called EXCEPT !.rating = ModelDump],
                                                  max_retries)
               [] out = "dict" -> [called EXCEPT !.returned = TRUE, !.rating = DictPayload]
               [] OTHER -> attempt_failed(called, max_retries)

\* One iteration of "for attempt in range(max_retries)".
rater_attempt(st, kind, a, b, fs, out, max_retries) ==
    LET prep == prepare_contents(kind, a, b, fs)
        called == [Logged(st, out) EXCEPT !.calls = @ + 1]
    IN  IF prep # "contents" THEN attempt_raised(Logged(st, prep), prep, max_retries)
        ELSE CASE out = "raise" -> attempt_raised(called, "Exception", max_retries)
               [] out = "model" -> [called EXCEPT !.returned = TRUE, !.rating = ModelDump]
               [] out = "dict" -> [called EXCEPT !.returned = TRUE, !.rating = DictPayload]
               [] OTHER -> attempt_failed(called, max_retries)

\* The loop of _run_rater is over: it returned, raised, or ran out of attempts.
RaterLoopOver(st, max_retries) ==
    st.returned \/ st.raised # "" \/ st.attempt >= max_retries

\* rater_exhausted giving up with an error instead of a rating.
rater_exhausted_Raises(st) == [st EXCEPT !.raised = "RuntimeError"]

\* "If all retries failed, return default rating".
rater_exhausted(st) == [st EXCEPT !.returned = TRUE, !.rating = DEFAULT_RATING]

\* "if not self.client: return DEFAULT_RATING"
rater_no_client(st) == [st EXCEPT !.returned = TRUE, !.rating = DEFAULT_RATING]

RECURSIVE RaterLoop(_, _, _, _, _, _, _)
RaterLoop(st, kind, a, b, fs, outs, max_retries) ==
    IF RaterLoopOver(st, max_retries)
    THEN IF st.returned \/ st.raised # "" THEN st ELSE rater_exhausted(st)
    ELSE RaterLoop(rater_attempt(st, kind, a, b, fs, outs[st.attempt + 1], max_retries),
                   kind, a, b, fs, outs, max_retries)

\* _run_rater(kind, a, b, max_retries) with the files as fs and the model
\* answering attempt k with outs[k]: the final state of the call.
run_rater(has_client, kind, a, b, fs, outs, max_retries) ==
    IF ~has_client THEN rater_no_client(RaterStart)
    ELSE RaterLoop(RaterStart, kind, a, b, fs, outs, max_retries)

(* ----------------------------- planner -------------------------------- *)

\* One planned call of _compare_images / _compare_texts / _compare_cross /
\* _compare_text_image; kind "KeyError" marks a failed rec[...] lookup.
Comparison(kind, step, anchor, a, b) ==
    [kind |-> kind, step |-> step, anchor |-> anchor, a |-> a, b |-> b]

KeyErrorStep ==
    Comparison("KeyError", 0, "", ItemPath(0, EmptyName), ItemPath(0, EmptyName))

\* sorted({int(idx.replace("iter", "")) for idx in iters}): the iteration
\* numbers of the "iter{N}_img" keys.
IterationSet(rec) == { ParseInt(k[2]) : k \in { q \in DOMAIN rec : q[1] = "img" } }

Min(S) == CHOOSE x \in S : \A y \in S : x <= y

RECURSIVE Sorted(_)
Sorted(S) == IF S = {} THEN <<>> ELSE <<Min(S)>> \o Sorted(S \ {Min(S)})

\* "input.jpg" in rec: a key of the record
start_with_image(loop_type, rec) == <<"input.jpg", << >> >> \in DOMAIN rec \/ loop_type = "I-T-I"

base_img(loop_type, item_id, rec) ==
    IF start_with_image(loop_type, rec) THEN ItemPath(item_id, InputJpg)
    ELSE ItemPath(item_id, RecGet(rec, ImgKey(1)))

base_txt(loop_type, item_id, rec) ==
    IF ~start_with_image(loop_type, rec) THEN ItemPath(item_id, InputTxt)
    ELSE ItemPath(item_id, RecGet(rec, TextKey(1)))

\* "Compare with original (base) content": same modality.
OriginalSame(loop_type, i, curr_img, curr_txt, b_img, b_txt) ==
    IF loop_type = "I-T-I"
    THEN << Comparison("image-image", i, "original", curr_img, b_img) >>
    ELSE IF loop_type = "T-I-T"
    THEN << Comparison("text-text", i, "original", curr_txt, b_txt) >>
    ELSE << >>

\* OriginalCross labelling the T-I-T comparison image-text, image first.
OriginalCross_ImageTextUnderTIT(loop_type, i, curr_img, curr_txt, b_img, b_txt) ==
    IF loop_type = "I-T-I"
    THEN << Comparison("image-text", i, "original", b_img, curr_txt) >>
    ELSE IF loop_type = "T-I-T"
    THEN << Comparison("image-text", i, "original", curr_img, b_txt) >>
    ELSE << Comparison("image-text", i, "original", b_img, curr_txt),
            Comparison("text-image", i, "original", b_txt, curr_img) >>

\* "Cross-modal comparison with original".
OriginalCross(loop_type, i, curr_img, curr_txt, b_img, b_txt) ==
    IF loop_type = "I-T-I"
    THEN << Comparison("image-text", i, "original", b_img, curr_txt) >>
    ELSE IF loop_type = "T-I-T"
    THEN << Comparison("text-image", i, "original", b_txt, curr_img) >>
    ELSE << Comparison("image-text", i, "original", b_img, curr_txt),
            Comparison("text-image", i, "original", b_txt, curr_img) >>

\* PreviousSame comparing only the modality the loop starts from.
PreviousSame_StartModalityOnly(loop_type, i, curr_img, curr_txt, prev_img, prev_txt) ==
    IF loop_type = "T-I-T"
    THEN << Comparison("text-text", i, "previous", curr_txt, prev_txt) >>
    ELSE << Comparison("image-image", i, "previous", curr_img, prev_img) >>

\* PreviousSame filing the comparison under the step it looks back to.
PreviousSame_StepOfPrevious(loop_type, i, curr_img, curr_txt, prev_img, prev_txt) ==
    IF loop_type = "T-I-T"
    THEN << Comparison("text-text", i - 1, "previous", curr_txt, prev_txt),
            Comparison("image-image", i - 1, "previous", curr_img, prev_img) >>
    ELSE << Comparison("image-image", i - 1, "previous", curr_img, prev_img),
            Comparison("text-text", i - 1, "previous", curr_txt, prev_txt) >>

\* "Compare with previous iteration": same modality.
PreviousSame(loop_type, i, curr_img, curr_txt, prev_img, prev_txt) ==
    IF loop_type = "T-I-T"
    THEN << Comparison("text-text", i, "previous", curr_txt, prev_txt),
            Comparison("image-image", i, "previous", curr_img, prev_img) >>
    ELSE << Comparison("image-image", i, "previous", curr_img, prev_img),
            Comparison("text-text", i, "previous", curr_txt, prev_txt) >>

\* PreviousCross with one direction per recognized loop type.
PreviousCross_OneDirection(loop_type, i, curr_img, curr_txt, prev_img, prev_txt) ==
    IF loop_type = "I-T-I"
    THEN << Comparison("image-text", i, "previous", prev_img, curr_txt) >>
    ELSE IF loop_type = "T-I-T"
    THEN << Comparison("image-text", i, "previous", curr_img, prev_txt) >>
    ELSE << Comparison("image-text", i, "previous", prev_img, curr_txt),
            Comparison("image-text", i, "previous", curr_img, prev_txt) >>

\* "Cross-modal comparison with previous".
PreviousCross(loop_type, i, curr_img, curr_txt, prev_img, prev_txt) ==
    IF loop_type = "I-T-I"
    THEN << Comparison("image-text", i, "previous", prev_img, curr_txt),
            Comparison("text-image", i, "previous", prev_txt, curr_img) >>
    ELSE IF loop_type = "T-I-T"
    THEN << Comparison("image-text", i, "previous", curr_img, prev_txt),
            Comparison("text-image", i, "previous", prev_txt, curr_img) >>
    ELSE << Comparison("image-text", i, "previous", prev_img, curr_txt),
            Comparison("image-text", i, "previous", curr_img, prev_txt),
            Comparison("text-image", i, "previous", prev_txt, curr_img) >>

\* "Same-step cross-modal comparison".
SameStep(loop_type, i, curr_img, curr_txt) ==
    IF loop_type = "T-I-T" THEN << >>
    ELSE << Comparison("image-text", i, "same-step", curr_img, curr_txt) >>

HasKeyError(steps) == \E k \in 1..Len(steps) : steps[k].kind = "KeyError"

\* The body of "for i in iters": the comparisons of iteration i in the order
\* they are rated, cut short by the first rec[...] lookup that fails.
IterationPlan(loop_type, item_id, rec, i) ==
    IF ImgKey(i) \notin DOMAIN rec \/ TextKey(i) \notin DOMAIN rec
    THEN << KeyErrorStep >>
    ELSE
      LET curr_img == ItemPath(item_id, rec[ImgKey(i)])
          curr_txt == ItemPath(item_id, rec[TextKey(i)])
          b_img == base_img(loop_type, item_id, rec)
          b_txt == base_txt(loop_type, item_id, rec)
          original == OriginalSame(loop_type, i, curr_img, curr_txt, b_img, b_txt)
                      \o OriginalCross(loop_type, i, curr_img, curr_txt, b_img, b_txt)
          same == SameStep(loop_type, i, curr_img, curr_txt)
      IN  IF i > 1
          THEN IF ImgKey(i - 1) \notin DOMAIN rec \/ TextKey(i - 1) \notin DOMAIN rec
               THEN original \o << KeyErrorStep >>
               ELSE LET prev_img == ItemPath(item_id, rec[ImgKey(i - 1)])
                        prev_txt == ItemPath(item_id, rec[TextKey(i - 1)])
                    IN  original
                        \o PreviousSame(loop_type, i, curr_img, curr_txt, prev_img, prev_txt)
                        \o PreviousCross(loop_type, i, curr_img, curr_txt, prev_img, prev_txt)
                        \o same
          ELSE original \o same

RECURSIVE PlanOver(_, _, _, _)
PlanOver(loop_type, item_id, rec, iters) ==
    IF iters = <<>> THEN <<>>
    ELSE LET first == IterationPlan(loop_type, item_id, rec, Head(iters))
         IN  IF HasKeyError(first) THEN first
             ELSE first \o PlanOver(loop_type, item_id, rec, Tail(iters))

\* Decimal strings in the order sorted() gives strings: "10" before "9".
StringLess(x, y) ==
    \E j \in 1..(Len(x) + 1) :
      /\ \A q \in 1..(j - 1) : q <= Len(y) /\ x[q] = y[q]
      /\ IF j = Len(x) + 1 THEN Len(y) >= j ELSE j <= Len(y) /\ x[j] < y[j]

RECURSIVE SortedAsStrings(_)
SortedAsStrings(S) ==
    IF S = {} THEN << >>
    ELSE LET first == CHOOSE x \in S :
                        \A y \in S \ { x } : StringLess(Decimal(x), Decimal(y))
         IN  << first >> \o SortedAsStrings(S \ { first })

\* eval_single_item sorting the iteration numbers without int(...).
eval_single_item_StringOrder(loop_type, item_id, rec) ==
    PlanOver(loop_type, item_id, rec, SortedAsStrings(IterationSet(rec)))

\* _eval_single_item: every comparison of the item, in the order it is rated.
eval_single_item(loop_type, item_id, rec) ==
    PlanOver(loop_type, item_id, rec, Sorted(IterationSet(rec)))

\* _package: the persisted record; the rating's entries are merged in last.
package(typ, item, step, anchor, rating, items) ==
    rating @@ [item_id |-> item, step |-> step, anchor |-> anchor,
               comparison_type |-> typ,
               comparison_items |-> << PathName(items[1]), PathName(items[2]) >>]

\* _compare_images, _compare_texts, _compare_cross, _compare_text_image: the
\* record of comparison c once the rater has returned rating.
compare(item_id, c, rating) ==
    package(c.kind, item_id, c.step, c.anchor, rating, << c.a, c.b >>)

(* ------------------------------ state --------------------------------- *)

VARIABLES
    loop_type,   \* self.loop_type
    client,      \* whether self.client is set
    meta_file,   \* metadata.json on disk: ok, missing or malformed
    meta,        \* metadata.json: the items in file order, each [item_id, rec]
    pc,          \* where EvaluationEngine.run is: init, loop, item, done, failed, idle
    cur,         \* the position in meta of the item being evaluated
    plan,        \* the comparisons of the item being evaluated, in rating order
    pos,         \* the position in plan of the next comparison to rate
    ratings,     \* img_img_ratings, txt_txt_ratings, ... : one list per kind
    eval_dirs,   \* the items whose eval directory exists
    files,       \* per item, the ratings_<kind>.json files written (kind -> list)
    faulty,      \* rater calls so far that did not succeed at once
    last_call,   \* the rater call of the last comparison: attempts made, attempts failed
    rcall,       \* SpecRater: the arguments and surroundings of the _run_rater call
    rater,       \* SpecRater: the local state of the _run_rater call
    report,      \* SpecReport, SpecTable: the state of the reporting code
    gen,         \* the state of the generation code (LoopController)
    main         \* SpecMain: where main.main is and the stages it has run

vars == << loop_type, client, meta_file, meta, pc, cur, plan, pos, ratings, eval_dirs, files, faulty,
           last_call, rcall, rater, report, gen, main >>

engine_vars == << loop_type, client, meta_file, meta, pc, cur, plan, pos, ratings, eval_dirs, files,
                  faulty, last_call, report, gen, main >>

engine_vars_only ==
    << loop_type, client, meta_file, meta, pc, cur, plan, pos, ratings, eval_dirs, files,
       faulty, last_call >>

EmptyLists == [k \in Kinds |-> << >>]

\* The reporting code is not running.
NoReport == [pc |-> "idle"]

\* The generation code is not running.
NoGen == [pc |-> "idle"]

\* main.main is not running.
NoMain == [pc |-> "idle"]

\* No rater call is being followed.
NoCall ==
    [has_client |-> FALSE, kind |-> "", a |-> ItemPath(0, EmptyName),
     b |-> ItemPath(0, EmptyName), fs |-> << >>, max_retries |-> 0]

\* The input files an experiment of the loop type starts from; an engine
\* without a recognized loop type may be pointed at either.
InputsOf(lt) ==
    IF lt = "I-T-I" THEN { InputJpg }
    ELSE IF lt = "T-I-T" THEN { InputTxt }
    ELSE { InputJpg, InputTxt }

\* The experiments LoopController leaves behind when it completes: 1..MaxItems
\* items, each with the num_iterations (1..MaxIter) iterations of its config.
Experiments(lt) ==
    { [k \in 1..n[1] |-> [item_id |-> k, rec |-> CompleteRecord(n[3], n[2])]]
      : n \in (1..MaxItems) \X (1..MaxIter) \X InputsOf(lt) }

Init ==
    /\ loop_type \in LoopTypes
    /\ client \in BOOLEAN
    /\ meta_file = "ok"
    /\ meta \in Experiments(loop_type)
    /\ pc = "init"
    /\ cur = 0
    /\ plan = << >>
    /\ pos = 0
    /\ ratings = EmptyLists
    /\ eval_dirs = {}
    /\ files = [k \in 1..Len(meta) |-> << >>]
    /\ faulty = 0
    /\ last_call = CallSummary(RaterStart)
    /\ rcall = NoCall
    /\ rater = RaterStart
    /\ report = NoReport
    /\ gen = NoGen
    /\ main = NoMain

(* ------------------------ EvaluationEngine.run ------------------------ *)

\* Run going on with no items when metadata.json cannot be loaded.
Run_IgnoresLoadError ==
    /\ pc = "init"
    /\ pc' = "loop"
    /\ cur' = 1
    /\ UNCHANGED << loop_type, client, meta_file, meta, plan, pos, ratings, eval_dirs, files,
                    faulty, last_call, rcall, rater, report, gen, main >>

\* run: metadata.json is loaded.
Run ==
    /\ pc = "init"
    /\ meta_file = "ok"
    /\ pc' = "loop"
    /\ cur' = 1
    /\ UNCHANGED << loop_type, client, meta_file, meta, plan, pos, ratings, eval_dirs, files, faulty,
                    last_call, rcall, rater, report, gen, main >>

\* _eval_single_item, up to the loop: the eval directory is made, the lists
\* are empty.
BeginItem ==
    /\ pc = "loop"
    /\ cur <= Len(meta)
    /\ pc' = "item"
    /\ plan' = eval_single_item(loop_type, meta[cur].item_id, meta[cur].rec)
    /\ pos' = 1
    /\ ratings' = EmptyLists
    /\ eval_dirs' = eval_dirs \cup { meta[cur].item_id }
    /\ UNCHANGED << loop_type, client, meta_file, meta, cur, files, faulty, last_call, rcall, rater, report, gen, main >>

\* Every file is there and opens.
AllOk(c) == [p \in {c.a, c.b} |-> "ok"]

\* The model answers with a _RatingModel.
AllModel == [k \in 1..DefaultMaxRetries |-> "model"]

\* What the Gemini client does when asked for response_schema=_RatingModel: it
\* raises, or its response carries a _RatingModel or nothing (plain dicts and
\* other payloads come from the test doubles, which SpecRater covers).
GeminiOutcomes == { "raise", "noparse", "model" }

\* The answers of the model over the attempts of one call that does not succeed
\* at once; what follows the first success is never asked for, and is "model".
FaultyAnswers ==
    { outs \in [1..DefaultMaxRetries -> GeminiOutcomes] :
        /\ outs[1] # "model"
        /\ \A j \in 1..DefaultMaxRetries, k \in 1..DefaultMaxRetries :
              (j < k /\ outs[j] = "model") => outs[k] = "model" }

\* list += self._compare_*(...): the rater call of comparison c ended as r.  A
\* rating it returned is packaged and appended; an exception it let out leaves
\* _eval_single_item and run, and nothing of the item is written.
Rated(c, r) ==
    /\ last_call' = CallSummary(r)
    /\ IF r.raised = ""
       THEN /\ ratings' = [ratings EXCEPT
                             ![c.kind] = @ \o << compare(meta[cur].item_id, c, r.rating) >>]
            /\ pos' = pos + 1
            /\ pc' = pc
       ELSE /\ pc' = "failed"
            /\ UNCHANGED << ratings, pos >>

\* One comparison whose rater call succeeds at once (or has no client to call).
CompareAtOnce ==
    /\ pc = "item"
    /\ pos <= Len(plan)
    /\ LET c == plan[pos]
       IN  /\ c.kind \in Kinds
           /\ Rated(c, run_rater(client, c.kind, c.a, c.b, AllOk(c), AllModel,
                                 DefaultMaxRetries))
    /\ UNCHANGED << loop_type, client, meta_file, meta, cur, plan, eval_dirs, files, faulty,
                    rcall, rater, report, gen, main >>

\* One comparison whose rater call meets a missing or broken file, a raising
\* call or an odd response.
CompareFaulty ==
    /\ pc = "item"
    /\ client
    /\ faulty < MaxFaulty
    /\ pos <= Len(plan)
    /\ LET c == plan[pos]
       IN  /\ c.kind \in Kinds
           /\ \/ \E fs \in [{c.a, c.b} -> FileStatus] \ { AllOk(c) } :
                    Rated(c, run_rater(client, c.kind, c.a, c.b, fs, AllModel,
                                       DefaultMaxRetries))
              \/ \E outs \in FaultyAnswers :
                    Rated(c, run_rater(client, c.kind, c.a, c.b, AllOk(c), outs,
                                       DefaultMaxRetries))
    /\ faulty' = faulty + 1
    /\ UNCHANGED << loop_type, client, meta_file, meta, cur, plan, eval_dirs, files, rcall, rater, report, gen, main >>

\* "write separate ratings files per comparison type", and on to the next item.
WriteRatings ==
    /\ pc = "item"
    /\ pos = Len(plan) + 1
    /\ files' = [files EXCEPT ![cur] = ratings]
    /\ cur' = cur + 1
    /\ pc' = "loop"
    /\ UNCHANGED << loop_type, client, meta_file, meta, plan, pos, ratings, eval_dirs, faulty,
                    last_call, rcall, rater, report, gen, main >>

\* run returns: every item was evaluated.
RunReturn ==
    /\ pc = "loop"
    /\ cur > Len(meta)
    /\ pc' = "done"
    /\ UNCHANGED << loop_type, client, meta_file, meta, cur, plan, pos, ratings, eval_dirs, files,
                    faulty, last_call, rcall, rater, report, gen, main >>

Next == Run \/ BeginItem \/ CompareAtOnce \/ CompareFaulty \/ WriteRatings \/ RunReturn

Spec == Init /\ [][Next]_vars

(* ------------------------ one _run_rater call -------------------------- *)

\* The two arguments of the call: an iteration's image or text against an input.
RaterPairs == { ImageIter(1), TextIter(1) } \X { InputJpg, InputTxt }

RaterCalls ==
    { [has_client |-> cl, kind |-> kind, a |-> ItemPath(1, ab[1]), b |-> ItemPath(1, ab[2]),
       fs |-> fs, max_retries |-> m]
      : <<cl, kind, ab, fs, m>> \in
          BOOLEAN \X (Kinds \cup {"audio-text"}) \X RaterPairs
          \X FileStatus \X (1..DefaultMaxRetries) }

InitRater ==
    /\ \E call \in RaterCalls, sb \in FileStatus :
         rcall = [call EXCEPT !.fs = (call.a :> call.fs) @@ (call.b :> sb)]
    /\ rater = RaterStart
    /\ loop_type = ""
    /\ client = rcall.has_client
    /\ meta_file = "ok"
    /\ meta = << >>
    /\ pc = "idle"
    /\ cur = 0
    /\ plan = << >>
    /\ pos = 0
    /\ ratings = EmptyLists
    /\ eval_dirs = {}
    /\ files = << >>
    /\ faulty = 0
    /\ last_call = CallSummary(RaterStart)
    /\ report = NoReport
    /\ gen = NoGen
    /\ main = NoMain

\* RaterNoClient preparing the contents before it looks for the client.
RaterNoClient_PreparesFirst ==
    /\ ~rcall.has_client
    /\ ~rater.returned
    /\ rater.raised = ""
    /\ LET prep == prepare_contents(rcall.kind, rcall.a, rcall.b, rcall.fs)
       IN  rater' = IF prep = "contents" THEN rater_no_client(rater)
                    ELSE [Logged(rater, prep) EXCEPT !.raised = prep]
    /\ UNCHANGED << engine_vars, rcall >>

\* "if not self.client: return DEFAULT_RATING"
RaterNoClient ==
    /\ ~rcall.has_client
    /\ ~rater.returned
    /\ rater' = rater_no_client(rater)
    /\ UNCHANGED << engine_vars, rcall >>

\* One attempt: contents are prepared, the model is called, the answer is read.
RaterAttempt ==
    /\ rcall.has_client
    /\ ~RaterLoopOver(rater, rcall.max_retries)
    /\ \E out \in Outcomes :
         rater' = rater_attempt(rater, rcall.kind, rcall.a, rcall.b, rcall.fs, out,
                                rcall.max_retries)
    /\ UNCHANGED << engine_vars, rcall >>

\* The loop ran out of attempts: "return DEFAULT_RATING".
RaterExhausted ==
    /\ rcall.has_client
    /\ ~rater.returned
    /\ rater.raised = ""
    /\ rater.attempt >= rcall.max_retries
    /\ rater' = rater_exhausted(rater)
    /\ UNCHANGED << engine_vars, rcall >>

NextRater == RaterNoClient \/ RaterAttempt \/ RaterExhausted

SpecRater == InitRater /\ [][NextRater]_vars

(* --------------- EvaluationEngine.run over any experiment --------------- *)

\* The record LoopController has saved when it is interrupted in iteration n:
\* the iterations before n, and of iteration n what is saved first, the text
\* of an image-started item, the image of a text-started one.
InterruptedRecord(input, n) ==
    LET first == IF input = InputJpg THEN TextKey(n) ELSE ImgKey(n)
    IN  [k \in DOMAIN CompleteRecord(input, n - 1) \cup { first } |->
           IF k \in DOMAIN CompleteRecord(input, n - 1) THEN CompleteRecord(input, n - 1)[k]
           ELSE IF input = InputJpg THEN TextIter(n) ELSE ImageIter(n)]

\* The records a generation run can leave for an item, finished or not.
MetaRecords(lt) ==
    { CompleteRecord(r[1], r[2]) : r \in InputsOf(lt) \X (0..MaxIter) }
    \cup { InterruptedRecord(r[1], r[2]) : r \in InputsOf(lt) \X (1..MaxIter) }

\* The experiments of SpecMeta: up to MaxItems such items, or one item of a
\* long run.
MetaExperiments(lt) ==
    { [k \in 1..Len(recs) |-> [item_id |-> k, rec |-> recs[k]]]
      : recs \in UNION { [1..n -> MetaRecords(lt)] : n \in 1..MaxItems } }
    \cup { << [item_id |-> 1, rec |-> CompleteRecord(input, LongRun)] >>
           : input \in InputsOf(lt) }

InitMeta ==
    /\ loop_type \in LoopTypes
    /\ client = TRUE
    /\ meta_file \in { "ok", "missing", "malformed" }
    /\ meta \in MetaExperiments(loop_type)
    /\ pc = "init"
    /\ cur = 0
    /\ plan = << >>
    /\ pos = 0
    /\ ratings = EmptyLists
    /\ eval_dirs = {}
    /\ files = [k \in 1..Len(meta) |-> << >>]
    /\ faulty = 0
    /\ last_call = CallSummary(RaterStart)
    /\ rcall = NoCall
    /\ rater = RaterStart
    /\ report = NoReport
    /\ gen = NoGen
    /\ main = NoMain

\* run: open(meta_path) or json.load raises, and run with it.
LoadFails ==
    /\ pc = "init"
    /\ meta_file # "ok"
    /\ pc' = "failed"
    /\ UNCHANGED << loop_type, client, meta_file, meta, cur, plan, pos, ratings, eval_dirs,
                    files, faulty, last_call, rcall, rater, report, gen, main >>

\* KeyErrorAbort writing what was rated so far on its way out.
KeyErrorAbort_WritesRated ==
    /\ pc = "item"
    /\ pos <= Len(plan)
    /\ plan[pos].kind = "KeyError"
    /\ pc' = "failed"
    /\ files' = [files EXCEPT ![cur] = ratings]
    /\ UNCHANGED << loop_type, client, meta_file, meta, cur, plan, pos, ratings, eval_dirs,
                    faulty, last_call, rcall, rater, report, gen, main >>

\* rec[f"iter{i}_img"] or rec[f"iter{i}_text"] raises KeyError: it leaves
\* _eval_single_item and run before the item's files are written.
KeyErrorAbort ==
    /\ pc = "item"
    /\ pos <= Len(plan)
    /\ plan[pos].kind = "KeyError"
    /\ pc' = "failed"
    /\ UNCHANGED << loop_type, client, meta_file, meta, cur, plan, pos, ratings, eval_dirs,
                    files, faulty, last_call, rcall, rater, report, gen, main >>

NextMeta ==
    LoadFails \/ Run \/ BeginItem \/ CompareAtOnce \/ KeyErrorAbort \/ WriteRatings
    \/ RunReturn

SpecMeta == InitMeta /\ [][NextMeta]_vars

(* ---------------------- reporting.py: the table ------------------------ *)

\* _METRIC_KEYS: the keys of a record that name a metric, and the metric.
METRIC_KEYS ==
    [ compositional_alignment |-> "compositional_alignment",
      content_correspondence |-> "content_correspondence",
      fidelity_completeness |-> "fidelity_completeness",
      style_consistency |-> "style_consistency",
      stylistic_congruence |-> "style_consistency",
      overall |-> "overall",
      overall_semantic_intent |-> "overall" ]

\* The metric keys in the order the records of the engine carry them.
MetricKeyOrder ==
    << "content_correspondence", "compositional_alignment", "fidelity_completeness",
       "stylistic_congruence", "style_consistency", "overall_semantic_intent", "overall" >>

\* The order of strings, for the values that occur: sort_values sorts them
\* alphabetically.
Alphabetical ==
    [ column \in { "comparison_type", "metric", "anchor" } |->
        CASE column = "comparison_type" ->
               << "image-image", "image-text", "text-image", "text-text" >>
          [] column = "metric" ->
               << "compositional_alignment", "content_correspondence",
                  "fidelity_completeness", "overall", "style_consistency" >>
          [] column = "anchor" -> << "original", "previous", "same-step" >> ]

StringRank(column, value) ==
    CHOOSE j \in 1..Len(Alphabetical[column]) : Alphabetical[column][j] = value

\* record.get(key, default)
Get(record, key, default) == IF key \in DOMAIN record THEN record[key] ELSE default

\* The rows load_and_normalize_data appends for one record: one per metric key
\* whose value is a dict with a score.
RECURSIVE RowsOver(_, _)
RowsOver(record, keys) ==
    IF keys = << >> THEN << >>
    ELSE LET key == Head(keys)
             rest == RowsOver(record, Tail(keys))
         IN  IF key \in DOMAIN record /\ "score" \in DOMAIN record[key]
             THEN << [ item_id |-> Get(record, "item_id", "unknown_item"),
                       step |-> record.step,
                       comparison_type |-> record.comparison_type,
                       anchor |-> record.anchor,
                       metric |-> METRIC_KEYS[key],
                       score |-> record[key].score,
                       reason |-> Get(record[key], "reason", ""),
                       valid |-> record[key].score >= 0 ] >> \o rest
             ELSE rest

RECURSIVE RowsOfRecords(_)
RowsOfRecords(records) ==
    IF records = << >> THEN << >>
    ELSE RowsOver(Head(records), MetricKeyOrder) \o RowsOfRecords(Tail(records))

\* by=["comparison_type", "metric", "anchor", "step"]: x sorts before y.
SortsBefore(x, y) ==
    LET kx == << StringRank("comparison_type", x.comparison_type),
                 StringRank("metric", x.metric), StringRank("anchor", x.anchor), x.step >>
        ky == << StringRank("comparison_type", y.comparison_type),
                 StringRank("metric", y.metric), StringRank("anchor", y.anchor), y.step >>
    IN  \E j \in 1..4 : kx[j] < ky[j] /\ \A q \in 1..(j - 1) : kx[q] = ky[q]

\* One row put into sorted rows, after the rows it does not sort before.
RECURSIVE InsertRow(_, _)
InsertRow(rows, row) ==
    IF rows = << >> THEN << row >>
    ELSE IF SortsBefore(row, rows[Len(rows)])
    THEN InsertRow(SubSeq(rows, 1, Len(rows) - 1), row) \o << rows[Len(rows)] >>
    ELSE Append(rows, row)

\* df.sort_values(by=[...]): rows that compare equal keep their order.
RECURSIVE sort_values(_)
sort_values(rows) ==
    IF rows = << >> THEN << >>
    ELSE InsertRow(sort_values(SubSeq(rows, 1, Len(rows) - 1)), rows[Len(rows)])

\* What load_and_normalize_data returns for df: None, or a table, the sequence
\* of its rows (empty: pd.DataFrame()).
NoneFrame == [none |-> TRUE, rows |-> << >>]

DataFrame(rows) == [none |-> FALSE, rows |-> rows]

\* load_and_normalize_data(file_path): None when the file is not there or is
\* not JSON, else the sorted table.
load_and_normalize_data(file) ==
    IF ~file.readable THEN NoneFrame
    ELSE DataFrame(sort_values(RowsOfRecords(file.records)))

\* The values of the columns cols of a row: the key groupby(cols) gives it.
GroupKey(row, cols) == [j \in 1..Len(cols) |-> row[cols[j]]]

\* The keys of groupby(cols), and the rows of one group in table order.
GroupKeys(rows, cols) == { GroupKey(rows[j], cols) : j \in 1..Len(rows) }

GroupOf(rows, cols, key) == SelectSeq(rows, LAMBDA row : GroupKey(row, cols) = key)

RECURSIVE SumOver(_, _)
SumOver(rows, power) ==
    IF rows = << >> THEN 0
    ELSE (IF power = 2 THEN Head(rows).score * Head(rows).score ELSE Head(rows).score)
         + SumOver(Tail(rows), power)

\* What mean() and std() of the scores of a group are computed from: mean is
\* sum / n, std is sqrt((n * sumsq - sum * sum) / (n * (n - 1))), NaN for n = 1.
Moments(rows) == [n |-> Len(rows), sum |-> SumOver(rows, 1), sumsq |-> SumOver(rows, 2)]

MeanGreater(x, y) == x.sum * y.n > y.sum * x.n

StdDefined(x) == x.n > 1

StdGreater(x, y) ==
    (x.n * x.sumsq - x.sum * x.sum) * (y.n * (y.n - 1))
      > (y.n * y.sumsq - y.sum * y.sum) * (x.n * (x.n - 1))

\* The moments of the groups of one column, label by label; a label without
\* rows has n = 0 and is no group.
RECURSIVE MomentsOfLabels(_, _, _)
MomentsOfLabels(rows, column, labels) ==
    IF labels = << >> THEN << >>
    ELSE << Moments(GroupOf(rows, << column >>, << Head(labels) >>)) >>
         \o MomentsOfLabels(rows, column, Tail(labels))

\* idxmax() over the groups of one column of rows, by mean or by std: the first
\* label in sorted order that no other exceeds; NaN values are skipped, and
\* when every value is NaN there is no label ("undefined": NaN with a warning
\* or ValueError, by pandas version).
IdxMax(rows, column, by) ==
    LET labels == Alphabetical[column]
        m == MomentsOfLabels(rows, column, labels)
        present == { j \in 1..Len(labels) :
                       /\ m[j].n > 0
                       /\ by = "std" => StdDefined(m[j]) }
        greater(x, y) == IF by = "std" THEN StdGreater(x, y) ELSE MeanGreater(x, y)
        best == { j \in present :
                    /\ \A q \in present : ~greater(m[q], m[j])
                    /\ \A q \in present : q < j => greater(m[j], m[q]) }
    IN  IF best = {} THEN "undefined" ELSE labels[CHOOSE j \in best : TRUE]

\* summary_by_type[comp_type]
SummaryOfType(group) ==
    [ best_metric |-> IdxMax(group, "metric", "mean"),
      most_volatile_metric |-> IdxMax(group, "metric", "std"),
      top_anchor |-> IdxMax(group, "anchor", "mean") ]

DeltaGroup == << "item_id", "comparison_type", "metric", "anchor" >>

\* One row with its delta and prev_score: the delta is 0 for the first row of
\* its group (fillna(0)), else its score minus that of the row before it in
\* the group.
DeltaRow(rows, j) ==
    LET before == { q \in 1..(j - 1) :
                      GroupKey(rows[q], DeltaGroup) = GroupKey(rows[j], DeltaGroup) }
        delta == IF before = {} THEN 0
                 ELSE rows[j].score
                      - rows[CHOOSE q \in before : \A o \in before : o <= q].score
    IN  rows[j] @@ [ delta |-> delta, prev_score |-> rows[j].score - delta ]

RECURSIVE DeltaRows(_, _)
DeltaRows(rows, n) ==
    IF n = 0 THEN << >> ELSE Append(DeltaRows(rows, n - 1), DeltaRow(rows, n))

\* diff() over the whole table, without the groupby.
WithDeltas_DiffOverTable(rows) ==
    [ j \in 1..Len(rows) |->
        LET delta == IF j = 1 THEN 0 ELSE rows[j].score - rows[j - 1].score
        IN  rows[j] @@ [ delta |-> delta, prev_score |-> rows[j].score - delta ] ]

\* groupby(DeltaGroup)["score"].diff().fillna(0) and prev_score, row by row.
WithDeltas(rows) == DeltaRows(rows, Len(rows))

\* nsmallest(n, "delta"): the n rows of least delta, equal deltas in table order.
RECURSIVE nsmallest(_, _)
nsmallest(n, rows) ==
    IF n = 0 \/ rows = << >> THEN << >>
    ELSE LET least == CHOOSE j \in 1..Len(rows) :
                        /\ \A q \in 1..Len(rows) : rows[j].delta <= rows[q].delta
                        /\ \A q \in 1..(j - 1) : rows[q].delta > rows[j].delta
         IN  << rows[least] >>
             \o nsmallest(n - 1, SubSeq(rows, 1, least - 1)
                                 \o SubSeq(rows, least + 1, Len(rows)))

\* groupby(cols).size(): the number of rows per group.
SizePerGroup(rows, cols) ==
    [ key \in GroupKeys(rows, cols) |-> Len(GroupOf(rows, cols, key)) ]

\* groupby(cols)["score"].mean() and .agg(["mean", "std"]), by their moments.
MomentsPerGroup(rows, cols) ==
    [ key \in GroupKeys(rows, cols) |-> Moments(GroupOf(rows, cols, key)) ]

\* calculate_aggregates without the filter df[df["valid"]].
calculate_aggregates_KeepsSentinels(df) ==
    LET valid_df == df
        deltas == WithDeltas(valid_df)
    IN  IF df = << >> THEN << >>
        ELSE IF valid_df = << >> THEN [ summary_cards |-> [ coverage |-> << 0, 1 >> ] ]
        ELSE [ summary_cards |->
                 [ coverage |-> << Len(valid_df), Len(df) >>,
                   by_type |-> [ key \in GroupKeys(valid_df, << "comparison_type" >>) |->
                                   SummaryOfType(GroupOf(valid_df, << "comparison_type" >>,
                                                         key)) ] ],
               availability |->
                 SizePerGroup(valid_df, << "comparison_type", "metric", "step" >>),
               anchor_vs_metric |->
                 MomentsPerGroup(valid_df, << "comparison_type", "metric", "anchor" >>),
               deltas |-> deltas,
               stability |->
                 MomentsPerGroup(valid_df, << "comparison_type", "metric", "step" >>),
               top_drops |-> nsmallest(TopDrops, deltas) ]

\* calculate_aggregates(df).  coverage is the fraction << valid rows, rows >>,
\* << 0, 1 >> for the literal 0.
calculate_aggregates(df) ==
    LET valid_df == SelectSeq(df, LAMBDA row : row.valid)
        deltas == WithDeltas(valid_df)
    IN  IF df = << >> THEN << >>
        ELSE IF valid_df = << >> THEN [ summary_cards |-> [ coverage |-> << 0, 1 >> ] ]
        ELSE [ summary_cards |->
                 [ coverage |-> << Len(valid_df), Len(df) >>,
                   by_type |-> [ key \in GroupKeys(valid_df, << "comparison_type" >>) |->
                                   SummaryOfType(GroupOf(valid_df, << "comparison_type" >>,
                                                         key)) ] ],
               availability |->
                 SizePerGroup(valid_df, << "comparison_type", "metric", "step" >>),
               anchor_vs_metric |->
                 MomentsPerGroup(valid_df, << "comparison_type", "metric", "anchor" >>),
               deltas |-> deltas,
               stability |->
                 MomentsPerGroup(valid_df, << "comparison_type", "metric", "step" >>),
               top_drops |-> nsmallest(TopDrops, deltas) ]

(* ------------------- graph_creator.py: chart series -------------------- *)

\* Optional[float]: None is << >>, a score x is << x >>.
None == << >>

Some(x) == << x >>

\* Key(comparison_type, anchor)
Key(comparison_type, anchor) == [comparison_type |-> comparison_type, anchor |-> anchor]

\* The scores _iter_series reads from one record: per criterion the score, None
\* when it is missing or negative.
SeriesScores(rec) ==
    [ crit \in Criteria |->
        IF crit \in DOMAIN rec /\ "score" \in DOMAIN rec[crit] /\ ~(rec[crit].score < 0)
        THEN Some(rec[crit].score) ELSE None ]

\* What the JSON value of a record's step is: an integer (as the engine writes
\* it), a string of digits, another string, a list, null (or no step at all),
\* or a number too large for a float (1e999, Infinity).  A record read from a
\* file that was edited carries the form in step_form.
StepForms == { "int", "digits", "word", "list", "null", "infinity" }

StepForm(rec) ==
    Get(rec, "step_form", IF "step" \in DOMAIN rec THEN "int" ELSE "null")

\* "if step_val is None: continue" and int(step_val): the integer is there
\* ("int"), the record is passed over ("None"), or int raises.
int_of_step(rec) ==
    CASE StepForm(rec) \in { "int", "digits" } -> "int"
      [] StepForm(rec) = "null" -> "None"
      [] StepForm(rec) = "word" -> "ValueError"
      [] StepForm(rec) = "list" -> "TypeError"
      [] OTHER -> "OverflowError"

\* The record belongs to the grouping.
InGroup(rec, wanted) ==
    /\ Get(rec, "comparison_type", "") = wanted.comparison_type
    /\ Get(rec, "anchor", "") = wanted.anchor

\* GraphCreator._iter_series(records, wanted): the (step, scores) pairs yielded
\* when no int(step_val) raises an exception that is not caught.
RECURSIVE iter_series(_, _)
iter_series(records, wanted) ==
    IF records = << >> THEN << >>
    ELSE LET rec == Head(records)
             rest == iter_series(Tail(records), wanted)
             scores == SeriesScores(rec)
         IN  IF ~InGroup(rec, wanted)
             THEN rest
             ELSE IF int_of_step(rec) # "int"
             THEN rest
             ELSE IF \E crit \in Criteria : scores[crit] # None
             THEN << << rec.step, scores >> >> \o rest
             ELSE rest

\* _iter_series lets an exception out: "except (ValueError, TypeError)" does
\* not catch the OverflowError of int(float("inf")).
iter_series_raises(records, wanted) ==
    \E j \in 1..Len(records) :
      InGroup(records[j], wanted) /\ int_of_step(records[j]) = "OverflowError"

\* The records of which _iter_series prints "Failed to parse step value".
iter_series_log(records, wanted) ==
    { j \in 1..Len(records) :
        InGroup(records[j], wanted)
        /\ int_of_step(records[j]) \in { "ValueError", "TypeError" } }

(* --------------------- the table of one ratings file -------------------- *)

ScoreAll(n) == [c \in Criteria |-> [score |-> n, reason |-> "ok"]]

\* A rating with a different score for every criterion, 0 included.
Graded ==
    [c \in Criteria |->
       [score |-> StringRank("metric", METRIC_KEYS[c]) - 1, reason |-> "ok"]]

\* A rating of which one criterion failed.
PartlyFailed ==
    [Graded EXCEPT !["content_correspondence"] =
                     [score |-> SentinelScore, reason |-> "Rating failed"]]

\* The ratings of a file: all failed, two that succeeded, one partly failed.
TableRatings == { DEFAULT_RATING, ScoreAll(8), ScoreAll(9), PartlyFailed }

TableKeys == { Key("image-image", "original"), Key("image-image", "previous") }

\* The records of a ratings file of one item, as _package makes them.
TableRecords ==
    { package(key.comparison_type, 1, step, key.anchor, rating,
              << ItemPath(1, ImageIter(step)), ItemPath(1, InputJpg) >>)
      : << key, step, rating >> \in TableKeys \X (1..MaxIter) \X TableRatings }

\* The files: at most MaxRecords records, or something that is not JSON.
TableFiles ==
    { [readable |-> TRUE, records |-> records]
      : records \in UNION { [1..n -> TableRecords] : n \in 0..MaxRecords } }
    \cup { [readable |-> FALSE, records |-> << >>] }

\* The engine is not running.
EngineIdle ==
    /\ loop_type = ""
    /\ client = FALSE
    /\ meta_file = "ok"
    /\ meta = << >>
    /\ pc = "idle"
    /\ cur = 0
    /\ plan = << >>
    /\ pos = 0
    /\ ratings = EmptyLists
    /\ eval_dirs = {}
    /\ files = << >>
    /\ faulty = 0
    /\ last_call = CallSummary(RaterStart)
    /\ rcall = NoCall
    /\ rater = RaterStart

InitTable ==
    /\ EngineIdle
    /\ gen = NoGen
    /\ main = NoMain
    /\ \E file \in TableFiles :
         report = [pc |-> "file", file |-> file, df |-> NoneFrame, agg |-> << >>,
                   series |-> << >>]

\* df, file_hash = load_and_normalize_data(file_path)
TableLoad ==
    /\ report.pc = "file"
    /\ report' = [report EXCEPT !.pc = "loaded", !.df = load_and_normalize_data(report.file)]
    /\ UNCHANGED << engine_vars_only, rcall, rater, gen, main >>

\* calculate_aggregates filtering df itself instead of a copy of it.
TableAggregate_InPlace ==
    /\ report.pc = "loaded"
    /\ ~report.df.none
    /\ report' = [report EXCEPT !.pc = "aggregated",
                                !.agg = calculate_aggregates(report.df.rows),
                                !.df = DataFrame(SelectSeq(report.df.rows,
                                                           LAMBDA row : row.valid))]
    /\ UNCHANGED << engine_vars_only, rcall, rater, gen, main >>

\* aggregates = calculate_aggregates(df)
TableAggregate ==
    /\ report.pc = "loaded"
    /\ ~report.df.none
    /\ report' = [report EXCEPT !.pc = "aggregated",
                                !.agg = calculate_aggregates(report.df.rows)]
    /\ UNCHANGED << engine_vars_only, rcall, rater, gen, main >>

\* idxmax() of a column of NaN only: some summary has no label.
IdxMaxOfNaN(rows) ==
    \E key \in GroupKeys(rows, << "comparison_type" >>) :
      \E stat \in { "best_metric", "most_volatile_metric", "top_anchor" } :
        SummaryOfType(GroupOf(rows, << "comparison_type" >>, key))[stat] = "undefined"

\* aggregates = calculate_aggregates(df) where idxmax() meets a column of NaN
\* only and the pandas installed raises ValueError for it.
TableAggregateRaises ==
    /\ report.pc = "loaded"
    /\ ~report.df.none
    /\ IdxMaxOfNaN(SelectSeq(report.df.rows, LAMBDA row : row.valid))
    /\ report' = [report EXCEPT !.pc = "raised"]
    /\ UNCHANGED << engine_vars_only, rcall, rater, gen, main >>

\* list(_iter_series(records, key)) for the keys of the charts.
TableSeries ==
    /\ report.pc = "file"
    /\ report.file.readable
    /\ report' = [report EXCEPT !.pc = "charted",
                                !.series = [key \in TableKeys |->
                                              iter_series(report.file.records, key)]]
    /\ UNCHANGED << engine_vars_only, rcall, rater, gen, main >>

NextTable == TableLoad \/ TableAggregate \/ TableAggregateRaises \/ TableSeries

SpecTable == InitTable /\ [][NextTable]_vars

(* ---------------- reporting.py: main, after the engine ----------------- *)

\* The name of the file _eval_single_item writes the ratings of one type to.
RatingsFileName(kind) == "ratings_" \o kind \o ".json"

\* What an eval directory holds under the name ratings.json: nothing, an empty
\* list, a record whose rating failed, a rated record, rated records of two steps.
LegacyKinds == { "absent", "empty", "failed", "single", "rated" }

LegacyRecords(item_id, kind) ==
    LET record(step, rating) ==
          package("image-image", item_id, step, "original", rating,
                  << ItemPath(item_id, ImageIter(step)), ItemPath(item_id, InputJpg) >>)
    IN  CASE kind = "failed" -> << record(1, DEFAULT_RATING) >>
          [] kind = "single" -> << record(1, ScoreAll(8)) >>
          [] kind = "rated" -> << record(1, ScoreAll(8)), record(2, ScoreAll(9)) >>
          [] OTHER -> << >>

\* The root of the experiment, and the file of a name in the eval directory of
\* an item.
ExpRoot == << >>

EvalFile(item, name) == << item, "eval", name >>

\* The ratings files under the root: those the engine wrote, and the
\* ratings.json files that are there.
Tree(written, legacy) ==
    { EvalFile(k, RatingsFileName(kind)) :
        << k, kind >> \in { k \in DOMAIN written : written[k] # << >> } \X Kinds }
    \cup { EvalFile(k, "ratings.json") : k \in { k \in DOMAIN legacy : legacy[k] # "absent" } }

\* What is read from a file of the tree.
Content(path, written, legacy) ==
    IF path[3] = "ratings.json"
    THEN [readable |-> TRUE, records |-> LegacyRecords(path[1], legacy[path[1]])]
    ELSE [readable |-> TRUE,
          records |-> written[path[1]][CHOOSE kind \in Kinds :
                                         RatingsFileName(kind) = path[3]]]

\* sorted(paths): the paths by item directory, one path per directory.
RECURSIVE SortedPaths(_)
SortedPaths(paths) ==
    IF paths = {} THEN << >>
    ELSE LET first == CHOOSE p \in paths : \A q \in paths : p[1] <= q[1]
         IN  << first >> \o SortedPaths(paths \ { first })

\* discover_ratings_files(path): a file counts if its name is ratings.json, a
\* directory gives glob("**/eval/ratings.json"), anything else nothing.
discover_ratings_files(path, tree) ==
    IF path \in tree
    THEN IF path[Len(path)] = "ratings.json" THEN << path >> ELSE << >>
    ELSE IF path = ExpRoot
    THEN SortedPaths({ p \in tree : p[Len(p) - 1] = "eval" /\ p[Len(p)] = "ratings.json" })
    ELSE << >>

\* args.path: the root, or a file in the eval directory of the first item.
ArgPaths ==
    { ExpRoot, EvalFile(1, "ratings.json"), EvalFile(1, RatingsFileName("image-image")) }

\* The tables main and generate_static_charts take from the aggregates.
ReportTables == { "availability", "anchor_vs_metric", "deltas", "stability" }

InitReport ==
    /\ loop_type \in LoopTypes
    /\ client \in BOOLEAN
    /\ meta_file = "ok"
    /\ meta \in Experiments(loop_type)
    /\ pc = "init"
    /\ cur = 0
    /\ plan = << >>
    /\ pos = 0
    /\ ratings = EmptyLists
    /\ eval_dirs = {}
    /\ files = [k \in 1..Len(meta) |-> << >>]
    /\ faulty = 0
    /\ last_call = CallSummary(RaterStart)
    /\ rcall = NoCall
    /\ rater = RaterStart
    /\ report = NoReport
    /\ gen = NoGen
    /\ main = NoMain

\* main, to the loop: parse_args, discover_ratings_files, sys.exit(1) when
\* there is no file.
Discover ==
    /\ pc = "done"
    /\ report.pc = "idle"
    /\ \E static \in BOOLEAN, path \in ArgPaths, legacy \in [1..Len(meta) -> LegacyKinds] :
         LET ratings_files == discover_ratings_files(path, Tree(files, legacy))
         IN  report' = [pc |-> IF ratings_files = << >> THEN "exit" ELSE "loop",
                        status |-> IF ratings_files = << >> THEN "exit 1" ELSE "running",
                        static |-> static,
                        path |-> path,
                        legacy |-> legacy,
                        ratings_files |-> ratings_files,
                        i |-> 1,
                        loaded |-> {},
                        rendered |-> {}]
    /\ UNCHANGED << engine_vars_only, rcall, rater, gen, main >>

\* One round of "for file_path in ratings_files": the file is skipped, or its
\* report is rendered, or an exception is caught and main exits with 1.  The
\* aggregates without tables make aggregates["availability"] raise KeyError and
\* aggregates.get("availability").to_dict raise AttributeError.
ProcessFile ==
    /\ report.pc = "loop"
    /\ report.i <= Len(report.ratings_files)
    /\ LET file_path == report.ratings_files[report.i]
           df == load_and_normalize_data(Content(file_path, files, report.legacy))
           aggregates == calculate_aggregates(df.rows)
           loaded == [report EXCEPT !.loaded = @ \cup { file_path }]
           exits == [loaded EXCEPT !.pc = "exit", !.status = "exit 1"]
       IN  IF df.none \/ df.rows = << >>
           THEN report' = [loaded EXCEPT !.i = @ + 1]
           ELSE IF ~(ReportTables \subseteq DOMAIN aggregates)
           THEN report' = exits
           ELSE \/ report' = [loaded EXCEPT !.i = @ + 1, !.rendered = @ \cup { file_path }]
                \/ /\ IdxMaxOfNaN(SelectSeq(df.rows, LAMBDA row : row.valid))
                   /\ report' = exits
    /\ UNCHANGED << engine_vars_only, rcall, rater, gen, main >>

\* main returns: the loop is over.
MainReturn ==
    /\ report.pc = "loop"
    /\ report.i > Len(report.ratings_files)
    /\ report' = [report EXCEPT !.pc = "exit", !.status = "exit 0"]
    /\ UNCHANGED << engine_vars_only, rcall, rater, gen, main >>

NextReport ==
    Run \/ BeginItem \/ CompareAtOnce \/ WriteRatings \/ RunReturn
    \/ Discover \/ ProcessFile \/ MainReturn

SpecReport == InitReport /\ [][NextReport]_vars

(* ============================== claims ================================ *)

\* The four rating files of item k are written.
Written(k) == DOMAIN files[k] = Kinds

\* The iterations metadata.json lists for item k.
Iterations(k) == IterationSet(meta[k].rec)

\* The positions in ratings_<kind>.json of item k of the records with the anchor.
WithAnchor(k, kind, anchor) ==
    { j \in 1..Len(files[k][kind]) : files[k][kind][j].anchor = anchor }

\* ... and with the step.
AtStep(k, kind, anchor, step) ==
    { j \in WithAnchor(k, kind, anchor) : files[k][kind][j].step = step }

\* The record carries DEFAULT_RATING.
CarriesDefault(record) == \A c \in Criteria : record[c] = DEFAULT_RATING[c]

\* C1: under I-T-I, an item whose metadata lists iterations 1..N gets N
\* image-image/original, N-1 image-image/previous, N-1 text-text/previous and N
\* image-text/same-step records; its files hold 2N-1 image-image, N-1 text-text
\* and 3N-1 image-text records, whatever the rater returned.
C1_ITICounts ==
    loop_type = "I-T-I" =>
      \A k \in 1..Len(meta) :
        LET N == Cardinality(Iterations(k))
        IN  (Written(k) /\ N >= 1 /\ Iterations(k) = 1..N) =>
              /\ Cardinality(WithAnchor(k, "image-image", "original")) = N
              /\ Cardinality(WithAnchor(k, "image-image", "previous")) = N - 1
              /\ Cardinality(WithAnchor(k, "text-text", "previous")) = N - 1
              /\ Cardinality(WithAnchor(k, "image-text", "same-step")) = N
              /\ Len(files[k]["image-image"]) = 2 * N - 1
              /\ Len(files[k]["text-text"]) = N - 1
              /\ Len(files[k]["image-text"]) = 3 * N - 1

\* The test's scenario with one rating failed: two iterations, 3, 1 and 5 records.
C1_Witness ==
    /\ loop_type = "I-T-I"
    /\ pc = "done"
    /\ \E k \in 1..Len(meta) :
         /\ Written(k)
         /\ Iterations(k) = 1..2
         /\ Len(files[k]["image-image"]) = 3
         /\ Len(files[k]["text-text"]) = 1
         /\ Len(files[k]["image-text"]) = 5
         /\ \E j \in 1..5 : CarriesDefault(files[k]["image-text"][j])

(* --------------------------- _run_rater -------------------------------- *)

\* Every attempt made so far failed.
AllFailed(st) == \A j \in 1..Len(st.log) : st.log[j] \notin Successes

\* The call is over: it returned or let an exception out.
RaterOver == rater.returned \/ rater.raised # ""

Least(x, y) == IF x <= y THEN x ELSE y

\* time.sleep(2 ** attempt) after each of the first n failed attempts.
Backoff(n) == [j \in 1..n |-> 2 ^ (j - 1)]

\* C2: with a client, while every attempt fails _run_rater makes at most
\* max_retries attempts with at most one model call each, has slept 1, 2, ...
\* seconds after each failed attempt but the last, raises nothing, and once all
\* max_retries attempts have failed returns exactly DEFAULT_RATING.
C2_ExhaustedRetries ==
    (rcall.has_client /\ AllFailed(rater)) =>
      /\ Len(rater.log) <= rcall.max_retries
      /\ rater.calls <= Len(rater.log)
      /\ rater.sleeps = Backoff(Least(Len(rater.log), rcall.max_retries - 1))
      /\ rater.raised = ""
      /\ RaterOver =>
           /\ Len(rater.log) = rcall.max_retries
           /\ rater.returned
           /\ rater.rating = DEFAULT_RATING

\* Three failed model calls of the default three attempts: sleeps of 1 and 2.
C2_Witness ==
    /\ rcall.has_client
    /\ rcall.max_retries = DefaultMaxRetries
    /\ rater.log = << "raise", "noparse", "raise" >>
    /\ rater.calls = 3
    /\ rater.sleeps = << 1, 2 >>
    /\ rater.returned
    /\ rater.rating = DEFAULT_RATING

\* The image arguments of the call: both of an image-image comparison, the one
\* _prepare_contents takes for the image of a cross-modal one.
ImageInputs(call) ==
    IF call.kind = "image-image" THEN { call.a, call.b }
    ELSE IF call.kind = "image-text"
    THEN IF IsImageName(call.a) THEN { call.a } ELSE { call.b }
    ELSE IF call.kind = "text-image"
    THEN IF IsImageName(call.a) THEN { call.a }
         ELSE IF IsImageName(call.b) THEN { call.b } ELSE { }
    ELSE { }

\* An image input of the call is missing or cannot be opened.
ImageInputBad == \E p \in ImageInputs(rcall) : rcall.fs[p] # "ok"

PlanOf(k) == eval_single_item(loop_type, meta[k].item_id, meta[k].rec)

OfKind(steps, T) == SelectSeq(steps, LAMBDA c : c.kind = T)

\* The record is the persisted form of comparison c of item k.
Persists(record, k, c) ==
    /\ record.item_id = meta[k].item_id
    /\ record.comparison_type = c.kind
    /\ record.step = c.step
    /\ record.anchor = c.anchor
    /\ record.comparison_items = << PathName(c.a), PathName(c.b) >>

\* The rating part of a record.
RatingOf(record) == [c \in DOMAIN record \cap Criteria |-> record[c]]

\* The comparison_items of the records of ratings_<kind>.json of item k with the
\* anchor and the step, in file order.
ItemsAt(k, kind, anchor, step) ==
    LET sel == SelectSeq(files[k][kind],
                         LAMBDA r : r.anchor = anchor /\ r.step = step)
    IN  [j \in 1..Len(sel) |-> sel[j].comparison_items]

\* A step of the run in which no rater call meets a fault.
FaultFreeStep == Run \/ BeginItem \/ CompareAtOnce \/ WriteRatings \/ RunReturn

\* C4: every comparison the planner schedules for an item is persisted exactly
\* once and in plan order in the file of its comparison type, with a rating the
\* rater returned; all four files are written, empty or not; no rater outcome
\* stops the run: a call that failed on every retry leaves a DEFAULT_RATING
\* record and the run can go on from there, and the run returns with every
\* item written.
C4_EveryComparisonPersisted ==
    /\ pc # "failed"
    /\ \A k \in 1..Len(meta) :
         /\ DOMAIN files[k] \in { {}, Kinds }
         /\ (k < cur \/ pc = "done") => Written(k)
         /\ Written(k) =>
              LET planned == PlanOf(k)
              IN  \A T \in Kinds :
                LET want == OfKind(planned, T)
                IN  /\ Len(files[k][T]) = Len(want)
                    /\ \A j \in 1..Len(want) :
                         /\ Persists(files[k][T][j], k, want[j])
                         /\ RatingOf(files[k][T][j]) \in { DEFAULT_RATING, ModelDump }
    /\ (pc = "item" /\ pos > 1 /\ last_call.failures = DefaultMaxRetries) =>
         LET list == ratings[plan[pos - 1].kind]
         IN  /\ Len(list) >= 1
             /\ CarriesDefault(list[Len(list)])
             /\ ENABLED FaultFreeStep

\* A run with a client that returned: a rating of the first item failed on
\* every retry, the next comparison of that file was rated, one of its files is
\* empty, and the second item is written too.
C4_Witness ==
    /\ pc = "done"
    /\ client
    /\ Len(meta) = 2
    /\ Written(1) /\ Written(2)
    /\ \E T \in Kinds : files[1][T] = << >>
    /\ \E T \in Kinds :
         /\ \E j \in 1..(Len(files[1][T]) - 1) :
              /\ CarriesDefault(files[1][T][j])
              /\ ~CarriesDefault(files[1][T][j + 1])
         /\ Len(files[2][T]) >= 1

\* C5: under every loop type, every iteration i of a written item has exactly
\* one image-text/same-step record with step i, of image i and text i.
C5_SameStepEveryIteration ==
    \A k \in 1..Len(meta) :
      Written(k) =>
        \A i \in Iterations(k) :
          ItemsAt(k, "image-text", "same-step", i) = << << ImageIter(i), TextIter(i) >> >>

\* The kind, anchor and step of every comparison of a plan.
Signatures(steps) ==
    { << steps[j].kind, steps[j].anchor, steps[j].step >> : j \in 1..Len(steps) }

\* The kind, anchor and step of every record written for item k.
WrittenSignatures(k) ==
    UNION { { << T, files[k][T][j].anchor, files[k][T][j].step >> :
                j \in 1..Len(files[k][T]) } : T \in Kinds }

\* C6: under a loop type that is neither I-T-I nor T-I-T the run does not fail,
\* the comparisons of a written item are those of I-T-I together with those of
\* T-I-T, and every iteration has its image-image/original and its
\* text-text/original record.
C6_UnknownRunsUnion ==
    loop_type \notin { "I-T-I", "T-I-T" } =>
      /\ pc # "failed"
      /\ \A k \in 1..Len(meta) :
           Written(k) =>
             /\ WrittenSignatures(k) =
                  Signatures(eval_single_item("I-T-I", meta[k].item_id, meta[k].rec))
                  \cup Signatures(eval_single_item("T-I-T", meta[k].item_id, meta[k].rec))
             /\ \A i \in Iterations(k) :
                  /\ Cardinality(AtStep(k, "image-image", "original", i)) = 1
                  /\ Cardinality(AtStep(k, "text-text", "original", i)) = 1

\* C7 as claimed: under T-I-T every iteration i has one image-text/original
\* record, of image i and input.txt.
C7_TITOriginalIsImageText ==
    loop_type = "T-I-T" =>
      \A k \in 1..Len(meta) :
        Written(k) =>
          \A i \in Iterations(k) :
            \E its \in { << << ImageIter(i), InputTxt >> >>, << << InputTxt, ImageIter(i) >> >> } :
              ItemsAt(k, "image-text", "original", i) = its

\* C7 (amended): under T-I-T the cross-modal comparison against the original of
\* iteration i is persisted once, with comparison_type text-image, in
\* ratings_text-image.json, as input.txt against image i; ratings_image-text.json
\* has no record with anchor original.
C7_TITOriginalIsTextImage ==
    loop_type = "T-I-T" =>
      \A k \in 1..Len(meta) :
        Written(k) =>
          /\ WithAnchor(k, "image-text", "original") = {}
          /\ Cardinality(WithAnchor(k, "text-image", "original")) = Cardinality(Iterations(k))
          /\ \A j \in WithAnchor(k, "text-image", "original") :
               files[k]["text-image"][j].comparison_type = "text-image"
          /\ \A i \in Iterations(k) :
               ItemsAt(k, "text-image", "original", i) = << << InputTxt, ImageIter(i) >> >>

\* A text-started item with two iterations, written under T-I-T.
C7_Witness ==
    /\ loop_type = "T-I-T"
    /\ \E k \in 1..Len(meta) :
         /\ Written(k)
         /\ Iterations(k) = 1..2
         /\ ItemsAt(k, "text-image", "original", 2) = << << InputTxt, ImageIter(2) >> >>
         /\ WithAnchor(k, "image-text", "original") = {}

\* The pairs compared by the cross-modal previous records of step i of item k.
CrossPreviousPairs(k, i) ==
    UNION { { { files[k][T][j].comparison_items[1], files[k][T][j].comparison_items[2] } :
                j \in AtStep(k, T, "previous", i) } : T \in { "image-text", "text-image" } }

\* C8 as claimed: for i > 1 the only cross-modal previous comparison under
\* I-T-I is image i-1 against text i, under T-I-T image i against text i-1, and
\* under another loop type exactly these two.
C8_OneDirectionOnly ==
    \A k \in 1..Len(meta) :
      Written(k) =>
        \A i \in Iterations(k) \ { 1 } :
          CrossPreviousPairs(k, i) =
            IF loop_type = "I-T-I" THEN { { ImageIter(i - 1), TextIter(i) } }
            ELSE IF loop_type = "T-I-T" THEN { { ImageIter(i), TextIter(i - 1) } }
            ELSE { { ImageIter(i - 1), TextIter(i) }, { ImageIter(i), TextIter(i - 1) } }

\* C8 (amended): for i > 1 the image-text/previous records are direction
\* specific (I-T-I: image i-1 against text i; T-I-T: image i against text i-1;
\* another loop type: both, in this order), and under every loop type there is
\* in addition exactly one text-image/previous record, of text i-1 against
\* image i.
C8_DirectionsAndTextImage ==
    \A k \in 1..Len(meta) :
      Written(k) =>
        \A i \in Iterations(k) \ { 1 } :
          /\ ItemsAt(k, "image-text", "previous", i) =
               IF loop_type = "I-T-I" THEN << << ImageIter(i - 1), TextIter(i) >> >>
               ELSE IF loop_type = "T-I-T" THEN << << ImageIter(i), TextIter(i - 1) >> >>
               ELSE << << ImageIter(i - 1), TextIter(i) >>, << ImageIter(i), TextIter(i - 1) >> >>
          /\ ItemsAt(k, "text-image", "previous", i) = << << TextIter(i - 1), ImageIter(i) >> >>

\* An image-started item with two iterations, written under I-T-I: both the
\* image-text and the text-image record of step 2.
C8_Witness ==
    /\ loop_type = "I-T-I"
    /\ \E k \in 1..Len(meta) :
         /\ Written(k)
         /\ 2 \in Iterations(k)
         /\ ItemsAt(k, "image-text", "previous", 2) = << << ImageIter(1), TextIter(2) >> >>
         /\ ItemsAt(k, "text-image", "previous", 2) = << << TextIter(1), ImageIter(2) >> >>

\* C9: under every loop type, every iteration i > 1 of a written item has
\* exactly one image-image/previous record (image i, image i-1) and exactly one
\* text-text/previous record (text i, text i-1) with step i; no record with
\* anchor previous has step 1.
C9_PreviousSameModality ==
    \A k \in 1..Len(meta) :
      Written(k) =>
        /\ \A i \in Iterations(k) \ { 1 } :
             /\ ItemsAt(k, "image-image", "previous", i) = << << ImageIter(i), ImageIter(i - 1) >> >>
             /\ ItemsAt(k, "text-text", "previous", i) = << << TextIter(i), TextIter(i - 1) >> >>
        /\ \A T \in Kinds : AtStep(k, T, "previous", 1) = {}

\* Two items with two iterations each, written under an unrecognized loop type.
C9_Witness ==
    /\ loop_type \notin { "I-T-I", "T-I-T" }
    /\ pc = "done"
    /\ Len(meta) = 2
    /\ \A k \in 1..2 :
         /\ Written(k)
         /\ Iterations(k) = 1..2
         /\ Cardinality(WithAnchor(k, "image-image", "previous")) = 1
         /\ Cardinality(WithAnchor(k, "text-text", "previous")) = 1

\* C10: every written record with anchor original has the item's initial input
\* as one of its two comparison_items, under every loop type.
C10_OriginalNamesInput ==
    \A k \in 1..Len(meta) :
      Written(k) =>
        \A T \in Kinds :
          \A j \in WithAnchor(k, T, "original") :
            \E n \in 1..2 : files[k][T][j].comparison_items[n] = meta[k].rec[InputKey]

(* ------------------------------ order ---------------------------------- *)

\* Original, then previous, then same-step.
AnchorRank(anchor) ==
    CASE anchor = "original" -> 1 [] anchor = "previous" -> 2 [] OTHER -> 3

\* x is not after y: by step, and within a step by anchor.
InOrder(x, y) ==
    \/ x.step < y.step
    \/ x.step = y.step /\ AnchorRank(x.anchor) <= AnchorRank(y.anchor)

\* C11: in every rating file written, the records are in ascending numeric
\* step order (step 10 after step 9) and within a step original records come
\* before previous records, which come before same-step records; the rater
\* calls made so far for the item under evaluation were issued in that order.
C11_AscendingSteps ==
    /\ \A k \in 1..Len(meta) :
         Written(k) =>
           \A T \in Kinds :
             \A j \in 1..(Len(files[k][T]) - 1) :
               InOrder(files[k][T][j], files[k][T][j + 1])
    /\ pc \in { "item", "failed" } =>
         \A j \in 1..(pos - 2) : InOrder(plan[j], plan[j + 1])

\* The long run, written under I-T-I: in ratings_image-text.json the last
\* record of step LongRun - 1 is followed by the original, the previous and
\* the same-step record of step LongRun.
C11_Witness ==
    /\ loop_type = "I-T-I"
    /\ pc = "done"
    /\ Written(1)
    /\ Iterations(1) = 1..LongRun
    /\ \E j \in 1..(Len(files[1]["image-text"]) - 3) :
         LET f == files[1]["image-text"]
         IN  /\ f[j].step = LongRun - 1 /\ f[j].anchor = "same-step"
             /\ f[j + 1].step = LongRun /\ f[j + 1].anchor = "original"
             /\ f[j + 2].step = LongRun /\ f[j + 2].anchor = "previous"
             /\ f[j + 3].step = LongRun /\ f[j + 3].anchor = "same-step"

(* ------------------------ _run_rater, continued ------------------------ *)

\* The last attempt of the call gave a rating back.
LastSucceeded(st) == Len(st.log) >= 1 /\ st.log[Len(st.log)] \in Successes

\* C12: when attempt k of _run_rater is the first to yield parsed output, the
\* call returns that attempt's rating and not DEFAULT_RATING, has made exactly
\* k model calls and makes none afterwards, has slept 2^(j-1) seconds after
\* each failed attempt j < k and not otherwise, and k <= max_retries.
C12_SuccessAfterFailures ==
    LastSucceeded(rater) =>
      LET k == Len(rater.log)
      IN  /\ k <= rcall.max_retries
          /\ \A j \in 1..(k - 1) : rater.log[j] \notin Successes
          /\ rater.returned
          /\ rater.raised = ""
          /\ rater.rating = IF rater.log[k] = "model" THEN ModelDump ELSE DictPayload
          /\ rater.rating # DEFAULT_RATING
          /\ rater.calls = k
          /\ rater.sleeps = Backoff(k - 1)
          /\ ~ENABLED NextRater

\* The third attempt succeeds after a raising call and an unparsed response.
C12_Witness ==
    /\ rcall.max_retries = DefaultMaxRetries
    /\ rater.log = << "raise", "noparse", "model" >>
    /\ rater.returned
    /\ rater.rating = ModelDump
    /\ rater.calls = 3
    /\ rater.sleeps = << 1, 2 >>

\* A rating as the schema has it: exactly the five criteria, each with a
\* numeric score and a string reason.
WellFormedRating(rating) ==
    /\ DOMAIN rating = Criteria
    /\ \A c \in Criteria :
         /\ DOMAIN rating[c] = { "score", "reason" }
         /\ rating[c].score \in Int
         /\ rating[c].reason \in { "ok", "Rating failed" }

\* C13: a rating _run_rater returns from an attempt has exactly the five
\* criteria, each with a numeric score and a string reason; any other parsed
\* payload counts as a failed attempt.
C13_OnlyValidatedRatings ==
    (rater.returned /\ LastSucceeded(rater)) => WellFormedRating(rater.rating)

\* C14: without a client _run_rater returns DEFAULT_RATING at once, whatever
\* the comparison kind and whether or not the files exist: no contents are
\* prepared, no model call is made, nothing is slept and nothing is raised.
C14_NoClientDefaults ==
    ~rcall.has_client =>
      /\ rater.log = << >>
      /\ rater.attempt = 0
      /\ rater.calls = 0
      /\ rater.sleeps = << >>
      /\ rater.raised = ""
      /\ rater.rating = DEFAULT_RATING
      /\ IF rater.returned THEN ~ENABLED NextRater ELSE ENABLED RaterNoClient

\* An image-image call on a missing file, and a call of an unknown kind, both
\* answered without a client.
C14_Witness ==
    /\ ~rcall.has_client
    /\ rater.returned
    /\ rater.rating = DEFAULT_RATING
    /\ \/ rcall.kind = "image-image" /\ rcall.fs[rcall.a] = "missing"
       \/ rcall.kind \notin Kinds

(* ------------------------- run, when it fails --------------------------- *)

\* C15: when metadata.json is missing or cannot be parsed, run fails before
\* any comparison is rated: it cannot go on to the items, no eval directory is
\* made and no rating file is written.
C15_LoadFailureIsFatal ==
    meta_file # "ok" =>
      /\ pc \in { "init", "failed" }
      /\ pc = "init" => ENABLED LoadFails /\ ~ENABLED Run
      /\ eval_dirs = {}
      /\ \A k \in 1..Len(meta) : files[k] = << >>
      /\ ratings = EmptyLists
      /\ pos = 0
      /\ last_call = CallSummary(RaterStart)

\* run has failed on a metadata.json that is not there.
C15_Witness ==
    /\ meta_file = "missing"
    /\ pc = "failed"
    /\ Len(meta) >= 1
    /\ eval_dirs = {}

\* Every planned comparison of item k is in its files.
FullyWritten(k) ==
    /\ Written(k)
    /\ \A T \in Kinds : Len(files[k][T]) = Len(OfKind(PlanOf(k), T))

\* The files of items are written whole, after the item's last comparison.
WrittenOnlyWhenRated ==
    \A k \in 1..Len(meta) :
      /\ DOMAIN files[k] \in { {}, Kinds }
      /\ files[k] # << >> => k < cur /\ FullyWritten(k)

\* C16: rating files are written only after all comparisons of their item have
\* been rated and are never touched again; so when run aborts in item k, on a
\* record that lacks a key, the files of the items before k are complete and
\* as they were written, and none of the files of item k exists.
C16_AbortLeavesWrittenItems ==
    /\ [](WrittenOnlyWhenRated
          /\ ((pc = "failed" /\ meta_file = "ok") =>
                /\ cur \in 1..Len(meta)
                /\ files[cur] = << >>
                /\ \A k \in 1..(cur - 1) : FullyWritten(k)))
    /\ [][\A k \in 1..Len(meta) : files[k] # << >> => files'[k] = files[k]]_vars

\* run aborted in the second item after rating some of its comparisons; the
\* files of the first item are there.
C16_Witness ==
    /\ pc = "failed"
    /\ meta_file = "ok"
    /\ cur = 2
    /\ pos > 1
    /\ \E T \in Kinds : ratings[T] # << >>
    /\ FullyWritten(1)
    /\ \E T \in Kinds : files[1][T] # << >>
    /\ files[2] = << >>

\* The rows of a table that are not sentinel rows.
ValidRows(df) == SelectSeq(df, LAMBDA row : ~(row.score < 0))

\* A record without its criteria of negative score.
StripSentinels(rec) ==
    [ key \in { k \in DOMAIN rec :
                  ~(k \in Criteria /\ "score" \in DOMAIN rec[k] /\ rec[k].score < 0) }
        |-> rec[key] ]

StatisticTables ==
    { "availability", "anchor_vs_metric", "deltas", "stability", "top_drops" }

\* C18: a criterion value with score < 0 contributes to no statistic of
\* calculate_aggregates: no row of the deltas and top drops has one, and every
\* statistic is what it is for the table without the sentinel rows (none at
\* all when no row is left); it contributes to no point of _iter_series, whose
\* points are those of the records without their sentinel criteria; and
\* coverage is the valid rows over all rows, the sentinel rows included.
C18_SentinelOnlyInCoverage ==
    /\ (report.pc = "aggregated" /\ report.df.rows # << >>) =>
         LET df == report.df.rows
             kept == ValidRows(df)
             agg == report.agg
             clean == calculate_aggregates(kept)
         IN  /\ agg.summary_cards.coverage[1] * Len(df)
                  = Len(kept) * agg.summary_cards.coverage[2]
             /\ kept = << >> => DOMAIN agg = { "summary_cards" }
             /\ kept # << >> =>
                  /\ DOMAIN agg = { "summary_cards" } \cup StatisticTables
                  /\ \A table \in StatisticTables : agg[table] = clean[table]
                  /\ agg.summary_cards.by_type = clean.summary_cards.by_type
                  /\ \A j \in 1..Len(agg.deltas) : agg.deltas[j].score >= 0
                  /\ \A j \in 1..Len(agg.top_drops) : agg.top_drops[j].score >= 0
                  /\ \A key \in DOMAIN agg.availability :
                       agg.availability[key]
                         = Cardinality({ j \in 1..Len(df) :
                             /\ df[j].score >= 0
                             /\ GroupKey(df[j], << "comparison_type", "metric", "step" >>)
                                  = key })
    /\ report.pc = "charted" =>
         \A key \in TableKeys :
           /\ \A j \in 1..Len(report.series[key]) :
                \A crit \in Criteria :
                  report.series[key][j][2][crit] # None
                    => report.series[key][j][2][crit][1] >= 0
           /\ report.series[key]
                = iter_series([ j \in 1..Len(report.file.records) |->
                                  StripSentinels(report.file.records[j]) ], key)

\* A table of sentinel rows and valid rows has been aggregated.
C18_Witness ==
    /\ report.pc = "aggregated"
    /\ \E j \in 1..Len(report.df.rows) : report.df.rows[j].score < 0
    /\ "deltas" \in DOMAIN report.agg
    /\ report.agg.summary_cards.coverage[1] < report.agg.summary_cards.coverage[2]

\* C19: in the deltas table every (item_id, comparison_type, metric, anchor)
\* group is in ascending step order, its first row has delta 0, every later
\* row has delta = its score minus the score of the row before it in the
\* group, and every row has a delta and prev_score = score - delta.
C19_DeltaIsStepDifference ==
    (report.pc = "aggregated" /\ "deltas" \in DOMAIN report.agg) =>
      /\ \A j \in 1..Len(report.agg.deltas) :
           /\ { "delta", "prev_score" } \subseteq DOMAIN report.agg.deltas[j]
           /\ report.agg.deltas[j].delta \in Int
           /\ report.agg.deltas[j].prev_score
                = report.agg.deltas[j].score - report.agg.deltas[j].delta
      /\ \A key \in GroupKeys(report.agg.deltas, DeltaGroup) :
           LET group == GroupOf(report.agg.deltas, DeltaGroup, key)
           IN  /\ group[1].delta = 0
               /\ \A j \in 1..Len(group) : group[1].step <= group[j].step
               /\ \A j \in 2..Len(group) :
                    /\ group[j - 1].step <= group[j].step
                    /\ group[j].delta = group[j].score - group[j - 1].score

\* Scores 8 at step 1 and 9 at step 2, written in the other order, have deltas
\* 0 and 1.
C19_Witness ==
    /\ report.pc = "aggregated"
    /\ Len(report.file.records) = 2
    /\ report.file.records[1].step = 2
    /\ report.file.records[2].step = 1
    /\ "deltas" \in DOMAIN report.agg
    /\ \E j, q \in 1..Len(report.agg.deltas) :
         /\ GroupKey(report.agg.deltas[j], DeltaGroup)
              = GroupKey(report.agg.deltas[q], DeltaGroup)
         /\ report.agg.deltas[q].step = 1
         /\ report.agg.deltas[q].score = 8
         /\ report.agg.deltas[q].delta = 0
         /\ report.agg.deltas[j].step = 2
         /\ report.agg.deltas[j].score = 9
         /\ report.agg.deltas[j].delta = 1
         /\ report.agg.deltas[j].prev_score = 8

\* The files the engine wrote that args.path covers: all of them for the root,
\* the file itself for a file.
EngineFilesUnder(path) ==
    { f \in { EvalFile(k, RatingsFileName(kind)) :
                << k, kind >> \in { k \in DOMAIN files : files[k] # << >> } \X Kinds } :
        path = ExpRoot \/ path = f }

\* C17: every ratings file the engine wrote for an item is discovered by
\* discover_ratings_files, and when main returns it was loaded by
\* load_and_normalize_data.
C17_EngineFilesAreLoaded ==
    /\ report.pc # "idle" =>
         \A f \in EngineFilesUnder(report.path) :
           \E j \in 1..Len(report.ratings_files) : report.ratings_files[j] = f
    /\ (report.pc = "exit" /\ report.status = "exit 0") =>
         EngineFilesUnder(report.path) \subseteq report.loaded

\* Every row of the file is a sentinel row, and there is one.
AllSentinel(path) ==
    LET df == load_and_normalize_data(Content(path, files, report.legacy))
    IN  /\ ~df.none
        /\ df.rows # << >>
        /\ \A j \in 1..Len(df.rows) : df.rows[j].score < 0

\* C20: main does not exit with a failure status because of a ratings file
\* whose scores are all the sentinel: when it exits with 1 after it found
\* files, the file it was at is not such a file.
C20_AllFailedFileIsNoData ==
    (report.pc = "exit" /\ report.status = "exit 1" /\ report.ratings_files # << >>) =>
      ~AllSentinel(report.ratings_files[report.i])

C29_RunNeverRaises ==
    meta_file = "ok" => pc # "failed"

(* ------------------- generation: _retry_with_backoff ------------------- *)

\* The largest max_retries followed.
MaxRetriesBound == 3

\* "self.retry_delay = getattr(config, "retry_delay", 5)"
DefaultRetryDelay == 5

RetryDelays == { 1, DefaultRetryDelay }

\* "except (OSError, ValueError, RuntimeError) as e"
Retryable == { "OSError", "ValueError", "RuntimeError" }

\* What one call of the operation does: it returns, raises an exception the
\* except clause catches, or raises another one (KeyError stands for these).
OperationOutcomes == { "ok" } \cup Retryable \cup { "KeyError" }

\* An exception object: its type and the call of the operation that raised it
\* (call 0: raised by _retry_with_backoff itself).
Exception(type, call) == [type |-> type, call |-> call]

\* "last_exception = None"
NoException == Exception("", 0)

\* The local state of a _retry_with_backoff call: attempt is the loop
\* variable, calls the calls of the operation so far, sleeps the arguments of
\* time.sleep so far, result the call whose value was returned, raised the
\* exception let out, log what each call did.
RetryStart ==
    [attempt |-> 0, calls |-> 0, sleeps |-> << >>, returned |-> FALSE, result |-> 0,
     last_exception |-> NoException, raised |-> NoException, log |-> << >>]

\* retry_attempt without "if attempt < self.max_retries - 1": it sleeps after
\* the last attempt too.
retry_attempt_SleepsAfterLast(st, out, max_retries, retry_delay) ==
    LET called == [st EXCEPT !.calls = @ + 1, !.log = Append(@, out)]
        e == Exception(out, called.calls)
    IN  IF out = "ok" THEN [called EXCEPT !.returned = TRUE, !.result = called.calls]
        ELSE IF out \in Retryable
        THEN [called EXCEPT !.last_exception = e, !.attempt = @ + 1,
                            !.sleeps = Append(@, retry_delay * 2 ^ st.attempt)]
        ELSE [called EXCEPT !.raised = e]

\* One iteration of "for attempt in range(self.max_retries)".
retry_attempt(st, out, max_retries, retry_delay) ==
    LET called == [st EXCEPT !.calls = @ + 1, !.log = Append(@, out)]
        e == Exception(out, called.calls)
        caught == [called EXCEPT !.last_exception = e, !.attempt = @ + 1]
    IN  IF out = "ok" THEN [called EXCEPT !.returned = TRUE, !.result = called.calls]
        ELSE IF out \in Retryable
        THEN IF st.attempt < max_retries - 1
             THEN [caught EXCEPT !.sleeps = Append(@, retry_delay * 2 ^ st.attempt)]
             ELSE caught
        ELSE [called EXCEPT !.raised = e]

\* The loop of _retry_with_backoff is over.
RetryLoopOver(st, max_retries) ==
    st.returned \/ st.raised # NoException \/ st.attempt >= max_retries

\* After the loop: "raise last_exception", or RuntimeError when no call was made.
retry_exhausted(st) ==
    IF st.last_exception # NoException
    THEN [st EXCEPT !.raised = st.last_exception]
    ELSE [st EXCEPT !.raised = Exception("RuntimeError", 0)]

RECURSIVE RetryLoop(_, _, _, _)
RetryLoop(st, outs, max_retries, retry_delay) ==
    IF RetryLoopOver(st, max_retries)
    THEN IF st.returned \/ st.raised # NoException THEN st ELSE retry_exhausted(st)
    ELSE RetryLoop(retry_attempt(st, outs[st.attempt + 1], max_retries, retry_delay),
                   outs, max_retries, retry_delay)

\* _retry_with_backoff(operation) with the operation doing outs[k] at its
\* k-th call: the final state of the call.
retry_with_backoff(outs, max_retries, retry_delay) ==
    RetryLoop(RetryStart, outs, max_retries, retry_delay)

\* SpecRetry: one call of _retry_with_backoff, attempt by attempt.
InitRetry ==
    /\ EngineIdle
    /\ report = NoReport
    /\ main = NoMain
    /\ \E n \in 0..MaxRetriesBound, d \in RetryDelays :
         gen = [pc |-> "retry", max_retries |-> n, retry_delay |-> d, st |-> RetryStart]

RetryAttempt ==
    /\ gen.pc = "retry"
    /\ ~RetryLoopOver(gen.st, gen.max_retries)
    /\ \E out \in OperationOutcomes :
         LET st == retry_attempt(gen.st, out, gen.max_retries, gen.retry_delay)
         IN  gen' = [gen EXCEPT !.st = st,
                                !.pc = IF st.returned THEN "returned"
                                       ELSE IF st.raised # NoException THEN "raised"
                                       ELSE "retry"]
    /\ UNCHANGED << engine_vars_only, rcall, rater, report, main >>

RetryExhausted ==
    /\ gen.pc = "retry"
    /\ RetryLoopOver(gen.st, gen.max_retries)
    /\ gen' = [gen EXCEPT !.st = retry_exhausted(gen.st), !.pc = "raised"]
    /\ UNCHANGED << engine_vars_only, rcall, rater, report, main >>

NextRetry == RetryAttempt \/ RetryExhausted

SpecRetry == InitRetry /\ [][NextRetry]_vars

\* The calls so far that raised an exception the except clause catches.
CaughtFailures(st) ==
    Cardinality({ j \in 1..Len(st.log) : st.log[j] \in Retryable })

\* C24: _retry_with_backoff calls the operation at most max_retries times; it
\* returns the value of the first successful call and calls no more; between
\* a caught failure of attempt a and the next attempt it sleeps
\* retry_delay * 2^a, and never after the last attempt; after max_retries
\* caught failures it has made exactly max_retries calls and raises the
\* exception of the last one.
C24_RetryWithBackoff ==
    LET st == gen.st
        n == gen.max_retries
        failed == CaughtFailures(st)
    IN  /\ st.calls <= n
        /\ st.calls = Len(st.log)
        /\ gen.pc = "returned" =>
             /\ st.log[st.calls] = "ok"
             /\ st.result = st.calls
             /\ \A j \in 1..(st.calls - 1) : st.log[j] \in Retryable
        /\ Len(st.sleeps) = (IF failed < n THEN failed ELSE IF n = 0 THEN 0 ELSE n - 1)
        /\ \A j \in 1..Len(st.sleeps) : st.sleeps[j] = gen.retry_delay * 2 ^ (j - 1)
        /\ (gen.pc = "raised" /\ n > 0 /\ failed = st.calls) =>
             /\ st.calls = n
             /\ st.raised = Exception(st.log[n], n)

\* Every attempt failed, max_retries of them with max_retries > 1, and the
\* last exception was raised.
C24_Witness ==
    /\ gen.pc = "raised"
    /\ gen.max_retries > 1
    /\ CaughtFailures(gen.st) = gen.max_retries
    /\ gen.st.log[1] # gen.st.log[gen.max_retries]

(* ---------------------- generation: LoopController ---------------------- *)

\* LoopController runs over the same output directory that are followed.
MaxRuns == 3

\* "self.max_retries = getattr(config, "max_retries", 3)"
DefaultGenRetries == 3

\* What the calls of a generator inside one _retry_with_backoff do: it works
\* at once, works at the second call, fails every call, or raises an exception
\* that is not retried.
GeneratorOutcomes ==
    { << "ok", "ok", "ok" >>, << "OSError", "ok", "ok" >>,
      << "RuntimeError", "ValueError", "OSError" >>, << "KeyError", "ok", "ok" >> }

\* A dict with string keys as json writes it: the items in insertion order.
DictHas(d, id) == \E j \in 1..Len(d) : d[j].item_id = id

\* d.get(id, {})
DictGet(d, id) ==
    IF DictHas(d, id) THEN d[CHOOSE j \in 1..Len(d) : d[j].item_id = id].rec ELSE << >>

\* d[id] = rec
DictSet(d, id, rec) ==
    IF DictHas(d, id)
    THEN [j \in 1..Len(d) |-> IF d[j].item_id = id THEN [item_id |-> id, rec |-> rec]
                                ELSE d[j]]
    ELSE Append(d, [item_id |-> id, rec |-> rec])

\* _load_progress(stem): {} when metadata.json is missing or the stem is not in it.
load_progress(file, content, stem) ==
    IF file # "ok" THEN << >> ELSE DictGet(content, stem)

\* The key whose presence marks an iteration as done: iter{i}_img for an
\* image-started loop, iter{i}_text for a text-started one.
ResumeKey(lt, i) == IF lt = "I-T-I" THEN ImgKey(i) ELSE TextKey(i)

\* "input.jpg" / "input.txt"
InputOf(lt) == IF lt = "I-T-I" THEN InputJpg ELSE InputTxt

\* "while f"iter{current_iter}_img" in record: current_iter += 1"
RECURSIVE current_iter_from(_, _, _)
current_iter_from(record, lt, i) ==
    IF ResumeKey(lt, i) \in DOMAIN record THEN current_iter_from(record, lt, i + 1) ELSE i

\* current_iter without the search: the item starts over.
current_iter_StartsOver(record, lt) == 1

\* "current_iter = 1" and the while loop: the first iteration not recorded.
current_iter(record, lt) == current_iter_from(record, lt, 1)

\* The two generations of iteration i in the order the loop makes them: the
\* operation, the key it records and the file it saves.
Generation(lt, i, phase) ==
    IF (lt = "I-T-I") = (phase = 1)
    THEN [op |-> "caption", key |-> TextKey(i), name |-> TextIter(i)]
    ELSE [op |-> "image", key |-> ImgKey(i), name |-> ImageIter(i)]

\* A new LoopController for the config: nothing run yet.  log is the history
\* of the item being processed: its _retry_with_backoff calls, each with the
\* operation, the iteration, the file it was given and whether it returned;
\* loaded is what _load_progress gave for the item; calls counts the calls of
\* generate_caption and generate_image in this run; ever is every (item, key)
\* that some write of metadata.json contained.
NewController(lt, n, inputs, has_prompts, run, ever) ==
    [pc |-> "start", loop_type |-> lt, num_iterations |-> n, inputs |-> inputs,
     has_prompts |-> has_prompts, max_retries |-> DefaultGenRetries,
     retry_delay |-> DefaultRetryDelay, run |-> run, self_meta |-> << >>, stem |-> 0,
     record |-> << >>, loaded |-> << >>, i |-> 0, phase |-> 0, current |-> EmptyName,
     log |-> << >>, calls |-> [caption |-> 0, image |-> 0], failures |-> FALSE,
     raised |-> "", ever |-> ever]

\* The (item, key) pairs of a metadata.json.
Recorded(d) ==
    UNION { { << d[j].item_id, k >> : k \in DOMAIN d[j].rec } : j \in 1..Len(d) }

\* SpecLoop: runs of LoopController over one output directory, each with a
\* new controller; the directory is empty before the first.  The config is a
\* BenchmarkConfig (no prompts.caption, no prompts.image) or the test's Mock.
InitLoop ==
    /\ loop_type = ""
    /\ client = FALSE
    /\ meta_file = "missing"
    /\ meta = << >>
    /\ pc = "idle"
    /\ cur = 0
    /\ plan = << >>
    /\ pos = 0
    /\ ratings = EmptyLists
    /\ eval_dirs = {}
    /\ files = << >>
    /\ faulty = 0
    /\ last_call = CallSummary(RaterStart)
    /\ rcall = NoCall
    /\ rater = RaterStart
    /\ report = NoReport
    /\ main = NoMain
    /\ \E lt \in LoopTypes, n \in 1..MaxIter, inputs \in 0..MaxItems, has_prompts \in BOOLEAN :
         gen = NewController(lt, n, inputs, has_prompts, 1, {})

loop_unchanged ==
    << loop_type, client, pc, cur, plan, pos, ratings, eval_dirs, files, faulty, last_call,
       rcall, rater, report, main >>

\* run and _run_i_t_i / _run_t_i_t up to the first input: the dispatch on the
\* loop type and the glob of the input directory.
RunStart ==
    /\ gen.pc = "start"
    /\ gen' = IF gen.loop_type \notin { "I-T-I", "T-I-T" }
              THEN [gen EXCEPT !.pc = "raised", !.raised = "ValueError"]
              ELSE IF gen.inputs = 0
              THEN [gen EXCEPT !.pc = "raised", !.raised = "RuntimeError"]
              ELSE [gen EXCEPT !.pc = "item", !.stem = 1]
    /\ UNCHANGED << loop_unchanged, meta_file, meta >>

\* _process_i_t_i_for_image / _process_t_i_t_for_text up to the for loop: load
\* the progress, start the record of a new item and save it, return when the
\* last iteration is recorded, else find the iteration to go on from.
ProcessItem ==
    /\ gen.pc = "item"
    /\ gen.stem <= gen.inputs
    /\ LET lt == gen.loop_type
           loaded == load_progress(meta_file, meta, gen.stem)
           fresh == loaded = << >>
           record == IF fresh THEN (InputKey :> InputOf(lt)) ELSE loaded
           self_meta == IF fresh THEN DictSet(gen.self_meta, gen.stem, record)
                        ELSE gen.self_meta
           k == current_iter(record, lt)
           g == [gen EXCEPT !.loaded = loaded, !.record = record, !.log = << >>,
                            !.self_meta = self_meta,
                            !.ever = IF fresh THEN @ \cup Recorded(self_meta) ELSE @]
       IN  /\ meta' = IF fresh THEN self_meta ELSE meta
           /\ meta_file' = IF fresh THEN "ok" ELSE meta_file
           /\ gen' = IF ResumeKey(lt, gen.num_iterations) \in DOMAIN record
                     THEN [g EXCEPT !.stem = @ + 1]
                     ELSE [g EXCEPT !.pc = "iter", !.i = k, !.phase = 1,
                                    !.current = IF k = 1 THEN record[InputKey]
                                                ELSE record[ResumeKey(lt, k - 1)]]
    /\ UNCHANGED loop_unchanged

\* One generation of the for loop: the prompt attribute is read from the
\* config, the generator runs under _retry_with_backoff, its output is saved,
\* recorded and the progress saved; an exception is logged and raised again.
Generate ==
    /\ gen.pc = "iter"
    /\ \E outs \in GeneratorOutcomes :
         LET lt == gen.loop_type
             what == Generation(lt, gen.i, gen.phase)
             r == retry_with_backoff(outs, gen.max_retries, gen.retry_delay)
             counted == [gen EXCEPT !.calls[what.op] = @ + r.calls,
                                    !.failures = @ \/ r.log # << "ok" >>,
                                    !.log = Append(@, [op |-> what.op, i |-> gen.i,
                                                       input |-> gen.current,
                                                       ok |-> r.returned])]
             record == (what.key :> what.name) @@ gen.record
             self_meta == DictSet(gen.self_meta, gen.stem, record)
             saved == [counted EXCEPT
                         !.record = record,
                         !.self_meta = self_meta,
                         !.ever = @ \cup Recorded(self_meta),
                         !.current = what.name]
             last == gen.phase = 2 /\ gen.i = gen.num_iterations
         IN  IF ~gen.has_prompts
             THEN /\ gen' = [gen EXCEPT !.pc = "raised", !.raised = "AttributeError",
                                        !.failures = TRUE]
                  /\ UNCHANGED << meta, meta_file >>
             ELSE IF ~r.returned
             THEN /\ gen' = [counted EXCEPT !.pc = "raised", !.raised = r.raised.type]
                  /\ UNCHANGED << meta, meta_file >>
             ELSE /\ meta' = self_meta
                  /\ meta_file' = "ok"
                  /\ gen' = IF last THEN [saved EXCEPT !.pc = "item", !.stem = @ + 1]
                            ELSE IF gen.phase = 1 THEN [saved EXCEPT !.phase = 2]
                            ELSE [saved EXCEPT !.phase = 1, !.i = @ + 1]
    /\ UNCHANGED loop_unchanged

\* The inputs are done: "self.root_om.write_json(self.meta, "metadata.json")".
RunFinish ==
    /\ gen.pc = "item"
    /\ gen.stem > gen.inputs
    /\ meta' = gen.self_meta
    /\ meta_file' = "ok"
    /\ gen' = [gen EXCEPT !.pc = "done", !.ever = @ \cup Recorded(gen.self_meta)]
    /\ UNCHANGED loop_unchanged

\* The experiment is run again: a new controller for the same config.
RunAgain ==
    /\ gen.pc \in { "done", "raised" }
    /\ gen.run < MaxRuns
    /\ gen' = NewController(gen.loop_type, gen.num_iterations, gen.inputs, gen.has_prompts,
                            gen.run + 1, gen.ever)
    /\ UNCHANGED << loop_unchanged, meta_file, meta >>

NextLoop == RunStart \/ ProcessItem \/ Generate \/ RunFinish \/ RunAgain

SpecLoop == InitLoop /\ [][NextLoop]_vars

\* The file iteration k starts from.
StartOf(lt, k) ==
    IF k = 1 THEN InputOf(lt) ELSE IF lt = "I-T-I" THEN ImageIter(k - 1) ELSE TextIter(k - 1)

\* C27: an item is generated in iteration order from its saved progress.  With
\* iterations 1..k-1 recorded in what metadata.json holds for the item when
\* its processing starts, the generator calls are those of iterations k,
\* k+1, ... in order, two per iteration, none for a recorded iteration, the
\* first given the output of iteration k-1 (the input when k = 1) and each
\* later one the output of the one before; an item that was processed to its
\* end got exactly iterations k..num_iterations, none when all were recorded;
\* a first run over an empty directory in which no call failed has called
\* generate_caption and generate_image inputs * num_iterations times each.
C27_ResumesInOrder ==
    (gen.pc \in { "item", "iter", "raised", "done" } /\ gen.stem >= 1) =>
      LET lt == gen.loop_type
          n == gen.num_iterations
          k == current_iter(gen.loaded, lt)
          log == gen.log
          complete == ResumeKey(lt, n) \in DOMAIN gen.loaded
      IN  /\ \A j \in 1..Len(log) :
               /\ log[j].i = k + ((j - 1) \div 2)
               /\ log[j].i \in k..n
               /\ log[j].op = Generation(lt, log[j].i, 1 + ((j - 1) % 2)).op
               /\ ResumeKey(lt, log[j].i) \notin DOMAIN gen.loaded
               /\ log[j].input = IF j = 1 THEN StartOf(lt, k)
                                 ELSE Generation(lt, log[j - 1].i, 1 + ((j - 2) % 2)).name
               /\ j < Len(log) => log[j].ok
          /\ \A i \in 1..(k - 1) :
               { ImgKey(i), TextKey(i) } \subseteq DOMAIN gen.loaded
          /\ complete => log = << >>
          /\ (gen.pc \in { "item", "done" } /\ gen.stem > 1 /\ ~complete) =>
               Len(log) = 2 * (n - k + 1)
          /\ (gen.pc = "done" /\ gen.run = 1 /\ ~gen.failures) =>
               /\ gen.calls.caption = gen.inputs * n
               /\ gen.calls.image = gen.inputs * n

\* A later run has gone on with an item from its second iteration and
\* finished it.
C27_Witness ==
    /\ gen.pc = "item"
    /\ gen.run > 1
    /\ gen.stem > 1
    /\ gen.num_iterations > 1
    /\ ResumeKey(gen.loop_type, 1) \in DOMAIN gen.loaded
    /\ ResumeKey(gen.loop_type, gen.num_iterations) \notin DOMAIN gen.loaded
    /\ Len(gen.log) = 2 * (gen.num_iterations - 1)

\* C28: metadata.json is never shrunk by LoopController: every item and key
\* that an earlier write of the file contained is in the file.
C28_MetadataNeverShrinks ==
    gen.pc # "start" => gen.ever \subseteq Recorded(meta)

(* ------------------ graph_creator.py: charts of an eval dir ------------- *)

\* sorted(eval_dir.glob("ratings_*.json")): the files by name.
KindOrder == << "image-image", "image-text", "text-image", "text-text" >>

\* What a ratings file is when GraphCreator opens it: as the engine wrote it,
\* not JSON (truncated, say), not to be opened, or not UTF-8.
FileForms == { "ok", "invalid json", "unreadable", "not utf-8" }

\* What was done to the experiment after the engine wrote it: nothing, or in
\* the eval directory of one item one file spoiled, or the step of the first
\* record of one file replaced, or charts_index.json made impossible to write.
NoDamage == [item |-> 0, kind |-> "", file |-> "ok", step |-> "int", index |-> TRUE]

Damages(items) ==
    { NoDamage }
    \cup { [item |-> k, kind |-> kind, file |-> form, step |-> "int", index |-> TRUE]
           : << k, kind, form >> \in items \X Kinds \X (FileForms \ { "ok" }) }
    \cup { [item |-> k, kind |-> kind, file |-> "ok", step |-> form, index |-> TRUE]
           : << k, kind, form >> \in items \X Kinds \X (StepForms \ { "int" }) }
    \cup { [item |-> k, kind |-> "", file |-> "ok", step |-> "int", index |-> FALSE]
           : k \in items }

\* The damage as it shows in the eval directory of item k.
DamageIn(damage, k) == IF damage.item = k THEN damage ELSE NoDamage

\* "with fp.open("r", encoding="utf-8") as f: data = json.load(f)": the
\* exception raised, if any, and the data.
json_load(kind, content, damage) ==
    LET form == IF damage.kind = kind THEN damage.file ELSE "ok"
        first == IF damage.kind = kind THEN damage.step ELSE "int"
    IN  [raised |-> CASE form = "invalid json" -> "JSONDecodeError"
                      [] form = "unreadable" -> "OSError"
                      [] form = "not utf-8" -> "UnicodeDecodeError"
                      [] OTHER -> "",
         data |-> IF first = "int" \/ content = << >> THEN content
                  ELSE << Head(content) @@ [step_form |-> first] >> \o Tail(content)]

\* _load_records(eval_dir) over the files from the j-th on: the records, the
\* files it printed a failure for, and the exception it let out.
RECURSIVE load_records_from(_, _, _)
load_records_from(written, damage, j) ==
    IF j > Len(KindOrder) THEN [raised |-> "", records |-> << >>, log |-> << >>]
    ELSE LET kind == KindOrder[j]
             read == json_load(kind, written[kind], damage)
             rest == load_records_from(written, damage, j + 1)
         IN  IF kind \notin DOMAIN written THEN rest
             ELSE IF read.raised \in { "JSONDecodeError", "OSError" }
             THEN [rest EXCEPT !.log = << kind >> \o @]
             ELSE IF read.raised # ""
             THEN [raised |-> read.raised, records |-> << >>, log |-> << >>]
             ELSE [rest EXCEPT !.records = read.data \o @]

load_records(written, damage) == load_records_from(written, damage, 1)

\* "Auto-detect loop type from available data"
detect_loop_type(records) ==
    LET has(key) == \E j \in 1..Len(records) : InGroup(records[j], key)
        has_imgimg_orig == has(Key("image-image", "original"))
        has_txttxt_orig == has(Key("text-text", "original"))
    IN  IF has_imgimg_orig /\ ~has_txttxt_orig THEN "I-T-I"
        ELSE IF has_txttxt_orig /\ ~has_imgimg_orig THEN "T-I-T"
        ELSE "UNKNOWN"

\* _get_wanted_keys(loop_type)
get_wanted_keys(lt) ==
    IF lt = "I-T-I"
    THEN << Key("image-image", "original"), Key("image-image", "previous"),
            Key("text-text", "previous"), Key("image-text", "same-step"),
            Key("image-text", "original"), Key("image-text", "previous"),
            Key("text-image", "previous") >>
    ELSE IF lt = "T-I-T"
    THEN << Key("image-image", "previous"), Key("text-text", "original"),
            Key("text-text", "previous"), Key("image-text", "same-step"),
            Key("image-text", "previous"), Key("text-image", "original"),
            Key("text-image", "previous") >>
    ELSE << Key("image-image", "original"), Key("image-image", "previous"),
            Key("text-text", "original"), Key("text-text", "previous"),
            Key("image-text", "same-step"), Key("image-text", "original"),
            Key("image-text", "previous"), Key("text-image", "original"),
            Key("text-image", "previous") >>

\* plot_keys without "missing.append(key)": a grouping without data is left out.
RECURSIVE plot_keys_OmitsSilently(_, _, _)
plot_keys_OmitsSilently(records, wanted_keys, j) ==
    IF j > Len(wanted_keys) THEN [raised |-> "", missing |-> << >>, charts |-> << >>]
    ELSE LET key == wanted_keys[j]
             series == iter_series(records, key)
             rest == plot_keys_OmitsSilently(records, wanted_keys, j + 1)
         IN  IF iter_series_raises(records, key)
             THEN [raised |-> "OverflowError", missing |-> << >>, charts |-> << >>]
             ELSE IF rest.raised # "" THEN rest
             ELSE IF series = << >> THEN rest
             ELSE [rest EXCEPT !.charts = << key >> \o @]

\* "for key in wanted_keys": the groupings without a series are missing, the
\* others plotted (_plot_group returns None for an empty series); an exception
\* of _iter_series ends the loop and the function.
RECURSIVE plot_keys(_, _, _)
plot_keys(records, wanted_keys, j) ==
    IF j > Len(wanted_keys) THEN [raised |-> "", missing |-> << >>, charts |-> << >>]
    ELSE LET key == wanted_keys[j]
             series == iter_series(records, key)
             rest == plot_keys(records, wanted_keys, j + 1)
         IN  IF iter_series_raises(records, key)
             THEN [raised |-> "OverflowError", missing |-> << >>, charts |-> << >>]
             ELSE IF rest.raised # "" THEN rest
             ELSE IF series = << >> THEN [rest EXCEPT !.missing = << key >> \o @]
             ELSE [rest EXCEPT !.charts = << key >> \o @]

\* generate_charts_for_eval(eval_dir): what it let out (raised), the records
\* it loaded, the loop type detected ("" when it returned before), the keys
\* wanted, the groupings printed as missing, the charts saved, charts_index.json
\* (None when it was not written), the files and records it printed a failure
\* for.
ChartsOutcome(raised, loaded, lt, plotted, index_ok) ==
    [raised |-> raised,
     records |-> loaded.records,
     loop_type |-> lt,
     wanted |-> IF lt = "" THEN << >> ELSE get_wanted_keys(lt),
     missing |-> plotted.missing,
     charts |-> plotted.charts,
     index |-> IF plotted.charts # << >> /\ index_ok THEN Some(plotted.charts) ELSE None,
     file_log |-> loaded.log,
     step_log |-> IF lt = "" THEN {}
                  ELSE UNION { iter_series_log(loaded.records, key)
                               : key \in { get_wanted_keys(lt)[j]
                                           : j \in 1..Len(get_wanted_keys(lt)) } }]

NothingPlotted == [raised |-> "", missing |-> << >>, charts |-> << >>]

generate_charts_for_eval(written, damage, index_ok) ==
    LET loaded == load_records(written, damage)
        lt == detect_loop_type(loaded.records)
        plotted == plot_keys(loaded.records, get_wanted_keys(lt), 1)
    IN  IF loaded.raised # ""
        THEN ChartsOutcome(loaded.raised, loaded, "", NothingPlotted, index_ok)
        ELSE IF loaded.records = << >>
        THEN ChartsOutcome("", loaded, "", NothingPlotted, index_ok)
        ELSE IF plotted.raised # ""
        THEN ChartsOutcome(plotted.raised, loaded, lt, NothingPlotted, index_ok)
        ELSE ChartsOutcome("", loaded, lt, plotted, index_ok)

\* SpecCharts: the engine evaluates an experiment, something may happen to
\* its files, then generate_charts_for_experiment goes through the eval
\* directories.
\* generate_charts_for_experiment(root), to the loop: discover_eval_dirs.
ChartsDiscover ==
    /\ pc = "done"
    /\ report.pc = "idle"
    /\ \E damage \in Damages(eval_dirs) :
         report' = [pc |-> IF eval_dirs = {} THEN "returned" ELSE "charts",
                    todo |-> eval_dirs,
                    dir |-> 0,
                    damage |-> damage,
                    out |-> ChartsOutcome("", [records |-> << >>, log |-> << >>], "",
                                          NothingPlotted, TRUE),
                    charted |-> {}]
    /\ UNCHANGED << engine_vars_only, rcall, rater, gen, main >>

\* One round of "for eval_dir in eval_dirs" (root.iterdir() gives them in any
\* order): generate_charts_for_eval returns, or raises and the experiment's
\* pass with it.
ChartsForEval ==
    /\ report.pc = "charts"
    /\ \E k \in report.todo :
         LET damage == DamageIn(report.damage, k)
             out == generate_charts_for_eval(files[k], damage, damage.index)
         IN  report' = [report EXCEPT
                          !.dir = k,
                          !.out = out,
                          !.todo = IF out.raised = "" THEN @ \ { k } ELSE @,
                          !.charted = IF out.raised = "" THEN @ \cup { k } ELSE @,
                          !.pc = IF out.raised # "" THEN "raised"
                                 ELSE IF report.todo = { k } THEN "returned"
                                 ELSE "charts"]
    /\ UNCHANGED << engine_vars_only, rcall, rater, gen, main >>

NextCharts ==
    Run \/ BeginItem \/ CompareAtOnce \/ WriteRatings \/ RunReturn
    \/ ChartsDiscover \/ ChartsForEval

SpecCharts == InitReport /\ [][NextCharts]_vars

\* The elements of a sequence.
Elements(seq) == { seq[j] : j \in 1..Len(seq) }

\* The rows of a grouping that are valid: records of the grouping with a
\* step that is an integer and a score that is not negative.
ChartRows(records, key) ==
    { j \in 1..Len(records) :
        /\ records[j].comparison_type = key.comparison_type
        /\ records[j].anchor = key.anchor
        /\ StepForm(records[j]) \in { "int", "digits" }
        /\ \E crit \in Criteria : records[j][crit].score >= 0 }

\* generate_charts_for_eval has returned for a directory after it detected
\* the loop type.
ChartsReturned ==
    /\ report.pc \in { "charts", "returned" }
    /\ report.dir # 0
    /\ report.out.loop_type # ""

\* C21: when generate_charts_for_eval has detected the loop type and
\* returned, every grouping expected for that loop type that has no valid row
\* in the loaded rating files is reported missing and has no chart, and every
\* grouping with a valid row has a chart, is not reported missing, and is
\* listed in charts_index.json (if that file could be written).
C21_MissingGroupingsReported ==
    ChartsReturned =>
      LET out == report.out
          wanted == Elements(get_wanted_keys(out.loop_type))
      IN  \A key \in wanted :
            IF ChartRows(out.records, key) = {}
            THEN /\ key \in Elements(out.missing)
                 /\ key \notin Elements(out.charts)
                 /\ out.index # None => key \notin Elements(out.index[1])
            ELSE /\ key \in Elements(out.charts)
                 /\ key \notin Elements(out.missing)
                 /\ DamageIn(report.damage, report.dir).index =>
                      (out.index # None /\ key \in Elements(out.index[1]))

\* A directory one of whose files could not be used: some of the expected
\* groupings are reported missing, the others charted and indexed.
C21_Witness ==
    /\ ChartsReturned
    /\ report.out.file_log # << >>
    /\ report.out.missing # << >>
    /\ report.out.charts # << >>
    /\ report.out.index # None

\* The (step, scores) pair _iter_series yields for a record.
SeriesPoint(rec) == << rec.step, SeriesScores(rec) >>

\* C22: a rating file that cannot be parsed as JSON is logged and skipped,
\* the records of the other files are loaded and the pass goes on; a record
\* whose step cannot be parsed as an integer is logged and skipped, the other
\* records of its grouping yield their series points and the pass goes on.
C22_BadFileOrStepSkipped ==
    (report.pc # "idle" /\ report.dir # 0) =>
      LET damage == DamageIn(report.damage, report.dir)
          out == report.out
          written == files[report.dir]
          key == Key(damage.kind, written[damage.kind][1].anchor)
      IN  /\ damage.file \in { "invalid json", "not utf-8" } =>
                /\ out.raised = ""
                /\ damage.kind \in Elements(out.file_log)
                /\ \A kind \in Kinds \ { damage.kind } :
                     Elements(written[kind]) \subseteq Elements(out.records)
          /\ (damage.step \notin { "int", "digits" } /\ written[damage.kind] # << >>
              /\ key \in Elements(get_wanted_keys(detect_loop_type(out.records)))) =>
                /\ out.raised = ""
                /\ \E j \in out.step_log : out.records[j].step_form = damage.step
                /\ \A j \in 2..Len(written[damage.kind]) :
                     LET rec == written[damage.kind][j]
                     IN  (InGroup(rec, key) /\ ChartRows(<< rec >>, key) # {}) =>
                           SeriesPoint(rec) \in Elements(iter_series(out.records, key))

\* Every rating of the files of item k has only scores that are not negative.
AllValid(k) ==
    \A kind \in DOMAIN files[k] :
      \A j \in 1..Len(files[k][kind]) :
        \A crit \in Criteria : files[k][kind][j][crit].score >= 0

\* C30: from the files the engine wrote for an item of two or more
\* iterations under I-T-I or T-I-T, every rating valid, generate_charts_for_eval
\* detects the engine's loop type, reports no grouping missing and makes one
\* chart for each grouping it expects.
C30_EngineOutputFullyCharted ==
    (/\ report.pc \in { "charts", "returned" }
     /\ report.dir # 0
     /\ loop_type \in { "I-T-I", "T-I-T" }
     /\ DamageIn(report.damage, report.dir) = NoDamage
     /\ Cardinality(Iterations(report.dir)) >= 2
     /\ AllValid(report.dir)) =>
      /\ report.out.loop_type = loop_type
      /\ report.out.missing = << >>
      /\ Len(report.out.charts) = Len(get_wanted_keys(loop_type))

(* --------------- reporting_summary.py: SummaryGenerator ---------------- *)

\* What can have happened to the experiment before the summaries are made:
\* what Damages lists, or every ratings file of one eval directory removed.
SummaryDamages(items) ==
    Damages(items)
    \cup { [item |-> k, kind |-> "", file |-> "absent", step |-> "int", index |-> TRUE]
           : k \in items }

\* The surroundings of _generate_summary: whether GOOGLE_API_KEY is set, and
\* what client.models.generate_content does: it answers, raises an exception
\* _generate_summary catches, or one it does not (google.genai.errors.APIError).
SummaryEnvs ==
    { [api_key |-> k, answer |-> a]
      : << k, a >> \in BOOLEAN \X { "text", "RuntimeError", "APIError" } }

\* _load_individual_eval_files(eval_dir): the exception it lets out, "" when
\* it returns the data of the files found.
RECURSIVE load_eval_files_from(_, _, _)
load_eval_files_from(written, damage, j) ==
    IF j > Len(KindOrder) THEN ""
    ELSE LET kind == KindOrder[j]
             read == json_load(kind, written[kind], damage)
         IN  IF kind \in DOMAIN written /\ read.raised # "" THEN read.raised
             ELSE load_eval_files_from(written, damage, j + 1)

load_individual_eval_files(written, damage) ==
    IF damage.file = "absent" \/ DOMAIN written = {} THEN "FileNotFoundError"
    ELSE load_eval_files_from(written, damage, 1)

\* _generate_summary(eval_data, ...): the exception it lets out, "" when it
\* returns a text (the model's answer or an error message).
generate_summary(env) ==
    IF ~env.api_key THEN ""
    ELSE IF env.answer = "APIError" THEN "APIError"
    ELSE ""

\* generate_summary_for_eval(eval_dir, ...): "True", "False", or the exception
\* that neither except clause catches.
generate_summary_for_eval(written, damage, env) ==
    LET loading == load_individual_eval_files(written, damage)
        raised == IF loading # "" THEN loading ELSE generate_summary(env)
    IN  IF raised = "" THEN "True"
        ELSE IF raised \in { "FileNotFoundError", "OSError", "RuntimeError" } THEN "False"
        ELSE raised

\* SpecSummaries: the engine evaluates an experiment, something may happen
\* to its files, then generate_summaries_for_experiment goes through the eval
\* directories.
\* generate_summaries_for_experiment, to the loop: discover_eval_dirs,
\* "return 0, 0" when there is none.
SummariesDiscover ==
    /\ pc = "done"
    /\ report.pc = "idle"
    /\ \E damage \in SummaryDamages(eval_dirs), env \in SummaryEnvs :
         report' = [pc |-> IF eval_dirs = {} THEN "returned" ELSE "summaries",
                    discovered |-> eval_dirs,
                    todo |-> eval_dirs,
                    dir |-> 0,
                    damage |-> damage,
                    env |-> env,
                    last |-> "",
                    successful |-> 0,
                    failed |-> 0]
    /\ UNCHANGED << engine_vars_only, rcall, rater, gen, main >>

\* One round of "for eval_dir in eval_dirs": the directory is counted, or the
\* exception of generate_summary_for_eval ends the pass.
SummaryForEval ==
    /\ report.pc = "summaries"
    /\ \E k \in report.todo :
         LET got == generate_summary_for_eval(files[k], DamageIn(report.damage, k), report.env)
             counted == [report EXCEPT !.dir = k, !.last = got]
             next == IF report.todo = { k } THEN "returned" ELSE "summaries"
         IN  report' = CASE got = "True" ->
                              [counted EXCEPT !.successful = @ + 1, !.todo = @ \ { k },
                                              !.pc = next]
                         [] got = "False" ->
                              [counted EXCEPT !.failed = @ + 1, !.todo = @ \ { k },
                                              !.pc = next]
                         [] OTHER -> [counted EXCEPT !.pc = "raised"]
    /\ UNCHANGED << engine_vars_only, rcall, rater, gen, main >>

NextSummaries ==
    Run \/ BeginItem \/ CompareAtOnce \/ WriteRatings \/ RunReturn
    \/ SummariesDiscover \/ SummaryForEval

SpecSummaries == InitReport /\ [][NextSummaries]_vars

\* C25: generate_summaries_for_experiment returns counts that add up to the
\* number of eval directories discovered, and a directory whose rating files
\* are absent, unreadable or unparsable is counted as failed and the pass goes
\* on to the remaining directories.
C25_EveryDirectoryCounted ==
    report.pc # "idle" =>
      /\ report.pc = "returned" =>
           report.successful + report.failed = Cardinality(report.discovered)
      /\ (report.dir # 0 /\ DamageIn(report.damage, report.dir).file # "ok") =>
           /\ report.last = "False"
           /\ report.pc # "raised"

(* ------------------------------ main.py -------------------------------- *)

\* config.evaluation as from_yaml leaves it, raw.get("evaluation", {}): a
\* dict, empty or with the key "enabled".
EvaluationConfigs == { << >>, ("enabled" :> TRUE), ("enabled" :> FALSE) }

\* Some of the attributes a dict has: its methods.  Its keys are not among them.
DictAttributes == { "get", "keys", "items", "values", "pop", "update", "copy" }

\* bool(getattr(d, name, default)) for a dict d: a method when the name is
\* one, else the default; d[name] is not looked at.
getattr_of_dict(d, name, default) ==
    IF name \in DictAttributes THEN TRUE ELSE default

\* The modes of a run: -e / --eval, -r / --report, or neither.
Modes == { "full", "eval", "report" }

\* The output directory before main runs: empty, or an experiment some earlier
\* generation completed.
InitMain ==
    /\ loop_type \in { "I-T-I", "T-I-T" }
    /\ client \in BOOLEAN
    /\ \/ meta_file = "missing" /\ meta = << >>
       \/ meta_file = "ok" /\ meta \in Experiments(loop_type)
    /\ pc = "idle"
    /\ cur = 0
    /\ plan = << >>
    /\ pos = 0
    /\ ratings = EmptyLists
    /\ eval_dirs = {}
    /\ files = [k \in 1..Len(meta) |-> << >>]
    /\ faulty = 0
    /\ last_call = CallSummary(RaterStart)
    /\ rcall = NoCall
    /\ rater = RaterStart
    /\ report = NoReport
    /\ gen = NoGen
    /\ \E mode \in Modes, evaluation \in EvaluationConfigs, n \in 1..MaxIter,
          inputs \in 0..MaxItems :
         main = [pc |-> "start", mode |-> mode, evaluation |-> evaluation,
                 num_iterations |-> n, inputs |-> inputs, stages |-> << >>]

Stage(name) == [main EXCEPT !.pc = name, !.stages = Append(@, name)]

\* EvaluationEngine(config.output_dir, ...) is constructed and run is called.
EngineStarts ==
    /\ pc' = "init"
    /\ cur' = 0
    /\ plan' = << >>
    /\ pos' = 0
    /\ ratings' = EmptyLists
    /\ files' = [k \in 1..Len(meta) |-> << >>]
    /\ UNCHANGED << loop_type, client, meta_file, meta, eval_dirs, faulty, last_call >>

\* "Execution orchestration": --eval goes to _run_evaluation(always_run=True),
\* --report to _run_reporting(force=True), neither to LoopController(config)
\* and its run; the config is a BenchmarkConfig, whose prompts have no
\* caption and no image attribute.
MainStart ==
    /\ main.pc = "start"
    /\ \/ /\ main.mode = "eval"
          /\ main' = Stage("evaluation")
          /\ EngineStarts
          /\ UNCHANGED << rcall, rater, report, gen >>
       \/ /\ main.mode = "report"
          /\ main' = Stage("reporting")
          /\ UNCHANGED << engine_vars_only, rcall, rater, report, gen >>
       \/ /\ main.mode = "full"
          /\ main' = Stage("generation")
          /\ gen' = NewController(loop_type, main.num_iterations, main.inputs, FALSE, 1, {})
          /\ UNCHANGED << engine_vars_only, rcall, rater, report >>

\* controller.run() has returned: "did_eval = _run_evaluation(always_run=False)",
\* which returns False unless getattr(config.evaluation, "enabled", False).
MainGenerated ==
    /\ main.pc = "generation"
    /\ gen.pc = "done"
    /\ IF getattr_of_dict(main.evaluation, "enabled", FALSE)
       THEN main' = Stage("evaluation") /\ EngineStarts
       ELSE /\ main' = [main EXCEPT !.pc = "returned"]
            /\ UNCHANGED engine_vars_only
    /\ UNCHANGED << rcall, rater, report, gen >>

\* controller.run() has raised: main lets the exception out.
MainGenerationRaised ==
    /\ main.pc = "generation"
    /\ gen.pc = "raised"
    /\ main' = [main EXCEPT !.pc = "raised"]
    /\ UNCHANGED << engine_vars_only, rcall, rater, report, gen >>

\* engine.run() has returned: main returns after --eval, and goes on to
\* _run_reporting(force=False) in a full run (config.reporting is a dict, so
\* charts and summary are both wanted).
MainEvaluated ==
    /\ main.pc = "evaluation"
    /\ pc = "done"
    /\ main' = IF main.mode = "eval" THEN [main EXCEPT !.pc = "returned"]
               ELSE Stage("reporting")
    /\ UNCHANGED << engine_vars_only, rcall, rater, report, gen >>

\* engine.run() has raised.
MainEvaluationRaised ==
    /\ main.pc = "evaluation"
    /\ pc = "failed"
    /\ main' = [main EXCEPT !.pc = "raised"]
    /\ UNCHANGED << engine_vars_only, rcall, rater, report, gen >>

\* _run_reporting: the charts, then the summaries; it returns, or one of the
\* two passes lets an exception out.
MainReporting ==
    /\ main.pc = "reporting"
    /\ \E returns \in BOOLEAN :
         /\ main' = [main EXCEPT !.pc = IF returns THEN "returned" ELSE "raised"]
         /\ report' = [pc |-> IF returns THEN "returned" ELSE "raised"]
    /\ UNCHANGED << engine_vars_only, rcall, rater, gen >>

NextMain ==
    MainStart \/ RunStart \/ ProcessItem \/ Generate \/ RunFinish \/ MainGenerated
    \/ MainGenerationRaised \/ LoadFails \/ Run \/ BeginItem \/ CompareAtOnce \/ WriteRatings
    \/ RunReturn \/ MainEvaluated \/ MainEvaluationRaised \/ MainReporting

SpecMain == InitMain /\ [][NextMain]_vars

\* C26: a run of main that has ended ran, with neither flag and evaluation
\* enabled in the config (and inputs to generate from), generation, then
\* evaluation, then reporting, each started after the one before had
\* completed; with --eval it ran evaluation only, with --report reporting only.
C26_PipelineOrder ==
    main.pc \in { "returned", "raised" } =>
      /\ (/\ main.mode = "full"
          /\ main.inputs > 0
          /\ "enabled" \in DOMAIN main.evaluation
          /\ main.evaluation["enabled"]) =>
           main.stages = << "generation", "evaluation", "reporting" >>
      /\ main.mode = "eval" => main.stages = << "evaluation" >>
      /\ main.mode = "report" => main.stages = << "reporting" >>

=============================================================================
